---- MODULE Spec2Model ----
(***************************************************************************)
(* A model of the specprodDB ingestion code: the composite identifier      *)
(* encoders of specprodDB.util, the file loader and stage loop of          *)
(* specprodDB.load, the targeting bitmask reconciliation zpix_target, the  *)
(* preloads that give a table its dimensions, the coefficient patch of    *)
(* specprodDB.coeff, the single tile loader of specprodDB.tile, two        *)
(* loaders of one schema at once, the start of load.main, and              *)
(* patch_exposures of specprodDB.patch.                                    *)
(*                                                                         *)
(* Python integers are unbounded, and the composite keys are wider than    *)
(* any machine word, so a non-negative integer is represented here by the  *)
(* set of the positions of its 1 bits: 5 is {0, 2}, 2^64 is {64}.  Shift,  *)
(* bitwise or and bitwise and are then exact at every width.               *)
(***************************************************************************)
EXTENDS Integers, Sequences, FiniteSets, TLC

VARIABLES
    issued,     \* KeySpec: the encoder calls made so far, with their results
    stage,      \* options.load, the stage main was asked to load
    filepaths,  \* the input files of the stage, each a sequence of rows
    chunksize,  \* config: rows per insert
    maxrows,    \* config: rows read per file, 0 for all
    db,         \* the persisted tables, each a set of rows
    pc,         \* where main is: idle, stage, file, chunk, done, failed, terminated
    l,          \* index of the loader in the stage loop of main
    f,          \* index of the file in the file loop of load_file
    k,          \* index of the chunk in the chunk loop of load_file
    data,       \* load_file: data[0:mr] of the file read last
    good_rows,  \* load_file: the row filter's mask over data[0:mr]
    data_rows,  \* load_file: the converted rows of the file read last
    loaded_rows,\* load_file: the running total it returns
    run,        \* how many times main has been started
    start,      \* the tables as they were when the current run began
    ended,      \* for each run that ended: how it ended and the tables then
    unrecognized, \* the indexes of the files whose name has no known extension
    executed,   \* the rows engine.execute has inserted in this run, in order
    column,     \* load_file: data[col], a floating point column of the file
    before,     \* that column as it was read
    fpc,        \* where load_file is with the column: read, checked, listed
    data_list,  \* load_file: the cells of the column that go on to the database
    specprod,   \* the production zpix_target is called for
    Target,     \* the rows of the target table
    Fiberassign,\* the rows of the fiberassign table
    Zpix,       \* the rows of the zpix table
    zpc,        \* where zpix_target is: idle, update
    zstart,     \* the zpix table as it was when the current call began
    bit_or_query, \* zpix_target: the bit_or rows still to apply, by partition
    calls,      \* for each call of zpix_target that ended: how, and zpix then
    source,     \* the input of a conversion: its columns, metadata, arguments
    cpc,        \* where the conversion is: read, raised, converted, inserted
    error,      \* the exception the conversion raised, if it did
    records,    \* how many rows the conversion returned
    n_inserted, \* how many rows of the input have been inserted
    catalog,    \* coeff.main: the rows of the ZCATALOG table
    catalog_type, \* coeff.main: pix or tilecumulative
    rowfilter,  \* copy_columns: the function that picks the rows to copy
    new_table,  \* coeff.main: the patch table copy_columns returns
    copc,       \* where coeff.main is: read, copied, converted
    patch_index,\* ZpixPatch.convert: the row_index it was called with
    patch_rows, \* ZpixPatch.convert: the records it returned
    tdb,        \* tile.main: the persisted tables, each a set of rows
    tpc,        \* where tile.main is
    topt,       \* tile.main: the options and input files of the current run
    tloc,       \* tile.main: its local tables
    truns,      \* how many times tile.main has been started
    rtable,     \* the Photometry table two loaders of targetphot share
    proc,       \* for each loader process: where it is, its file and locals
    exclusive,  \* whether the loaders are run one at a time
    mdb,        \* load.main: the schema, its rows and how often it was created
    mpc,        \* where load.main is
    mopt,       \* load.main: the environment, configuration and options
    mstart,     \* the schema as it was when load.main was started
    mruns,      \* how many times load.main has been started
    psrc,       \* patch: the exposures table the patches come from
    pdst,       \* patch: the exposures table to be patched
    praw,       \* patch: whether the raw data files can be read
    ppc,        \* where the patching is: read, patched, repatched, raised
    pfirst,     \* what the first call of patch_exposures returned
    pout        \* what the last call of patch_exposures returned

loadvars == <<stage, filepaths, chunksize, maxrows, db, pc, l, f, k, data,
              good_rows, data_rows, loaded_rows, run, start, ended,
              unrecognized, executed>>
finvars == <<column, before, fpc, data_list>>
zpixvars == <<specprod, Target, Fiberassign, Zpix, zpc, zstart, bit_or_query,
              calls>>
convvars == <<source, cpc, error, records, n_inserted>>
copyvars == <<catalog, catalog_type, rowfilter, new_table, copc, patch_index,
              patch_rows>>
tilevars == <<tdb, tpc, topt, tloc, truns>>
racevars == <<rtable, proc, exclusive>>
mainvars == <<mdb, mpc, mopt, mstart, mruns>>
patchvars == <<psrc, pdst, praw, ppc, pfirst, pout>>
extvars == <<tilevars, racevars, mainvars, patchvars>>
oldvars == <<issued, loadvars, finvars, zpixvars, convvars, copyvars>>
vars == <<oldvars, extvars>>

\* the parts of the program a specification leaves out stay as they are here
KeyIdle == issued = {}
FinIdle == column = <<>> /\ before = <<>> /\ fpc = "off" /\ data_list = <<>>
ZpixIdle ==
    /\ specprod = "" /\ Target = {} /\ Fiberassign = {} /\ Zpix = {}
    /\ zpc = "off" /\ zstart = {} /\ bit_or_query = <<>> /\ calls = <<>>
ConvIdle ==
    /\ source = <<>> /\ cpc = "off" /\ error = [type |-> "", names |-> ""]
    /\ records = 0 /\ n_inserted = 0
CopyIdle ==
    /\ catalog = <<>> /\ catalog_type = "" /\ rowfilter = "" /\ new_table = <<>>
    /\ copc = "off" /\ patch_index = <<>> /\ patch_rows = <<>>
TileIdle ==
    /\ tdb = <<>> /\ tpc = "off" /\ topt = <<>> /\ tloc = <<>> /\ truns = 0
RaceIdle == rtable = {} /\ proc = <<>> /\ exclusive = FALSE
MainIdle == mdb = <<>> /\ mpc = "off" /\ mopt = <<>> /\ mstart = <<>> /\ mruns = 0
PatchIdle ==
    /\ psrc = <<>> /\ pdst = <<>> /\ praw = FALSE /\ ppc = "off" /\ pfirst = <<>>
    /\ pout = <<>>
ExtIdle == TileIdle /\ RaceIdle /\ MainIdle /\ PatchIdle

-----------------------------------------------------------------------------
(* Bit-set integers.                                                       *)

RECURSIVE Pow2(_)
Pow2(n) == IF n = 0 THEN 1 ELSE 2 * Pow2(n - 1)

\* the bit set of a small natural number
Bits(n) == {i \in 0..30 : (n \div Pow2(i)) % 2 = 1}

\* the small natural number of a bit set whose bits are all below 31
RECURSIVE Val(_)
Val(x) == IF x = {} THEN 0
          ELSE LET b == CHOOSE c \in x : TRUE IN Pow2(b) + Val(x \ {b})

Shl(x, n) == {b + n : b \in x}
Shr(x, n) == {b - n : b \in {c \in x : c >= n}}
BitOr(x, y) == x \cup y
BitAnd(x, y) == x \cap y
\* 2**n - 1
LowMask(n) == 0..(n - 1)

\* x + y, by carrying from bit i upwards
RECURSIVE AddCarry(_, _, _, _)
AddCarry(x, y, i, c) ==
    IF c = 0 /\ \A b \in x \cup y : b < i THEN {}
    ELSE LET sum == (IF i \in x THEN 1 ELSE 0) + (IF i \in y THEN 1 ELSE 0) + c
         IN  (IF sum % 2 = 1 THEN {i} ELSE {}) \cup AddCarry(x, y, i + 1, sum \div 2)

Add(x, y) == AddCarry(x, y, 0, 0)

\* 100 * x = 64 x + 32 x + 4 x
Times100(x) == Add(Add(Shl(x, 6), Shl(x, 5)), Shl(x, 2))

\* the value a numpy array of signed w bit integers holds after an operation
\* whose exact result is x: x modulo 2^w, read as two's complement
Signed(x, w) ==
    LET low == BitAnd(x, LowMask(w))
    IN  IF (w - 1) \in low
        THEN [negative |-> TRUE, magnitude |-> Add(LowMask(w) \ low, {0})]
        ELSE [negative |-> FALSE, magnitude |-> low]

-----------------------------------------------------------------------------
(* specprodDB.util: the dimension tables and the composite encoders.       *)

_surveyid == [cmx |-> 1, special |-> 2, sv1 |-> 3, sv2 |-> 4, sv3 |-> 5, main |-> 6]
_programid == [backup |-> 1, bright |-> 2, dark |-> 3, other |-> 4]
_spgrpid == ("1x_depth" :> 1) @@ ("4x_depth" :> 2) @@ ("cumulative" :> 3) @@
            ("lowspeed" :> 4) @@ ("perexp" :> 5) @@ ("pernight" :> 6) @@
            ("healpix" :> 7)

\* a dictionary lookup that fails raises KeyError; where the values of the
\* dictionary are integers the exception is written as -1, which is no value
\* of any of the tables
KeyError == "KeyError"
KeyErrorInt == -1

\* a camera name is the sequence of its characters: 'b0' is <<"b", "0">>
brz == <<"b", "r", "z">>

\* 'brz'.index(c), counted from 0
brz_index(c) == (CHOOSE i \in 1..Len(brz) : brz[i] = c) - 1

\* int(c) of one decimal digit
int ==
    ("0" :> 0) @@ ("1" :> 1) @@ ("2" :> 2) @@ ("3" :> 3) @@ ("4" :> 4) @@
    ("5" :> 5) @@ ("6" :> 6) @@ ("7" :> 7) @@ ("8" :> 8) @@ ("9" :> 9)

cameraid(camera) == brz_index(camera[1]) * 10 + int[camera[2]]

\* expid is a Python integer here, so the sum is exact
frameid(expid, camera) == Add(Times100(expid), Bits(cameraid(camera)))

\* load._frameid: the same sum, carried out by numpy in the integer type of
\* the EXPID column, for every row of the table
_frameid(rows, width) ==
    [i \in 1..Len(rows) |->
        Signed(Add(Times100(rows[i].EXPID), Bits(cameraid(rows[i].CAMERA))), width)]

\* dict.get(survey, 0) in place of the subscript
surveyid_get(survey) ==
    IF survey \in DOMAIN _surveyid THEN _surveyid[survey] ELSE 0

surveyid(survey) ==
    IF survey \in DOMAIN _surveyid THEN _surveyid[survey] ELSE KeyErrorInt

decode_surveyid(sid) ==
    IF \E s \in DOMAIN _surveyid : Bits(_surveyid[s]) = sid
    THEN CHOOSE s \in DOMAIN _surveyid : Bits(_surveyid[s]) = sid
    ELSE KeyError

programid(program) ==
    IF program \in DOMAIN _programid THEN _programid[program] ELSE KeyErrorInt

spgrpid(spgrp) ==
    IF spgrp \in DOMAIN _spgrpid THEN _spgrpid[spgrp] ELSE KeyErrorInt

targetphotid(targetid, tileid, survey) ==
    BitOr(BitOr(Shl(Bits(surveyid(survey)), 96), Shl(tileid, 64)), targetid)

decode_targetphotid_narrow(id) ==
    LET targetid == BitAnd(id, LowMask(64))
        t == Shr(id, 64)
        tileid == BitAnd(t, LowMask(31))
        survey == decode_surveyid(Shr(t, 32))
    IN  <<targetid, tileid, survey>>

decode_targetphotid(id) ==
    LET targetid == BitAnd(id, LowMask(64))
        t == Shr(id, 64)
        tileid == BitAnd(t, LowMask(32))
        survey == decode_surveyid(Shr(t, 32))
    IN  <<targetid, tileid, survey>>

zpixid(targetid, survey, program) ==
    BitOr(BitOr(Shl(Bits(programid(program)), 96), Shl(Bits(surveyid(survey)), 64)),
          targetid)

ztileid_shift26(targetid, spgrp, spgrpval, tileid) ==
    LET sid == BitOr(Shl(Bits(_spgrpid[spgrp]), 26), spgrpval)
    IN  BitOr(BitOr(Shl(sid, 96), Shl(tileid, 64)), targetid)

ztileid(targetid, spgrp, spgrpval, tileid) ==
    LET sid == BitOr(Shl(Bits(_spgrpid[spgrp]), 27), spgrpval)
    IN  BitOr(BitOr(Shl(sid, 96), Shl(tileid, 64)), targetid)

fiberassignid(targetid, tileid, location) ==
    BitOr(BitOr(Shl(location, 96), Shl(tileid, 64)), targetid)

\* load._survey_program, Ztile branch: the ID column is the pair
\* (id0, TARGETID) of 64-bit integers, which the 'id' converter of the
\* redshift loader joins as x[0] << 64 | x[1].
_survey_program_id0(spgrp, spgrpval, tileid) ==
    BitOr(Shl(BitOr(Shl(Bits(spgrpid(spgrp)), 27), spgrpval), 32), tileid)

convert_id(x) == BitOr(Shl(x[1], 64), x[2])

\* ztileid and _survey_program raise only through the dictionary lookup of the
\* grouping name; neither looks at the width of spgrpval
ztileid_raises(targetid, spgrp, spgrpval, tileid) == spgrp \notin DOMAIN _spgrpid

-----------------------------------------------------------------------------
(* KeySpec: the encoders applied to inputs drawn from bounded sets.        *)

\* how many encoder calls a behaviour records
MaxIssued == 2

\* sample inputs inside the declared ranges: 64 bit TARGETID, 32 bit TILEID,
\* 27 bit SPGRPVAL, any LOCATION
TargetIds == {{0}, {32, 63}}
TileIds == {{0}, {31}}
Spgrpvals == {{}, {26}}
Locations == {{}, {0}, {3}}
\* grouping values that do not fit in the 27 bit field
WideSpgrpvals == {{27}, {26, 27}}
Surveys == DOMAIN _surveyid
Programs == DOMAIN _programid
Spgrps == DOMAIN _spgrpid

Fits27(v) == v \subseteq LowMask(27)

KeyInit ==
    /\ KeyIdle /\ FinIdle /\ ZpixIdle /\ ConvIdle /\ CopyIdle /\ ExtIdle
    /\ stage = "" /\ filepaths = <<>> /\ chunksize = 1 /\ maxrows = 0
    /\ db = [photometry |-> {}] /\ pc = "off" /\ l = 0 /\ f = 0 /\ k = 0
    /\ data = <<>> /\ good_rows = <<>> /\ data_rows = <<>> /\ loaded_rows = 0
    /\ run = 0 /\ start = [photometry |-> {}] /\ ended = <<>>
    /\ unrecognized = {} /\ executed = <<>>

\* the calls recorded in one behaviour are those of one encoder, the keys of
\* one table
SameEncoder(fn) ==
    /\ Cardinality(issued) < MaxIssued
    /\ \A r \in issued : r.fn = fn

CallTargetphotid ==
    /\ SameEncoder("targetphotid")
    /\ \E t \in TargetIds, tile \in TileIds, s \in Surveys :
        issued' = issued \cup
            {[fn |-> "targetphotid", raised |-> FALSE, args |-> <<t, tile, s>>,
              key |-> targetphotid(t, tile, s)]}
    /\ UNCHANGED <<extvars, loadvars, finvars, zpixvars, convvars, copyvars>>

CallZpixid ==
    /\ SameEncoder("zpixid")
    /\ \E t \in TargetIds, s \in Surveys, p \in Programs :
        issued' = issued \cup
            {[fn |-> "zpixid", raised |-> FALSE, args |-> <<t, s, p>>, key |-> zpixid(t, s, p)]}
    /\ UNCHANGED <<extvars, loadvars, finvars, zpixvars, convvars, copyvars>>

CallZtileid ==
    /\ SameEncoder("ztileid")
    /\ \E t \in TargetIds, g \in Spgrps, v \in Spgrpvals \cup WideSpgrpvals,
          tile \in TileIds :
        issued' = issued \cup
            {[fn |-> "ztileid", args |-> <<t, g, v, tile>>,
              raised |-> ztileid_raises(t, g, v, tile),
              key |-> ztileid(t, g, v, tile)]}
    /\ UNCHANGED <<extvars, loadvars, finvars, zpixvars, convvars, copyvars>>

CallFiberassignid ==
    /\ SameEncoder("fiberassignid")
    /\ \E t \in TargetIds, tile \in TileIds, loc \in Locations :
        issued' = issued \cup
            {[fn |-> "fiberassignid", raised |-> FALSE, args |-> <<t, tile, loc>>,
              key |-> fiberassignid(t, tile, loc)]}
    /\ UNCHANGED <<extvars, loadvars, finvars, zpixvars, convvars, copyvars>>

CallSurveyProgram ==
    /\ SameEncoder("_survey_program")
    /\ \E t \in TargetIds, v \in Spgrpvals \cup WideSpgrpvals, tile \in TileIds :
        issued' = issued \cup
            {[fn |-> "_survey_program", args |-> <<t, "cumulative", v, tile>>,
              raised |-> ztileid_raises(t, "cumulative", v, tile),
              key |-> convert_id(<<_survey_program_id0("cumulative", v, tile), t>>)]}
    /\ UNCHANGED <<extvars, loadvars, finvars, zpixvars, convvars, copyvars>>

\* names that are in none of the tables, and the integers around the survey ids
UnknownNames == {"foo", "MAIN", ""}
SurveyIds == -1..8

CallSurveyid ==
    /\ SameEncoder("surveyid")
    /\ \E s \in Surveys \cup UnknownNames :
        issued' = issued \cup
            {[fn |-> "surveyid", args |-> <<s>>,
              raised |-> surveyid(s) = KeyErrorInt, key |-> surveyid(s)]}
    /\ UNCHANGED <<extvars, loadvars, finvars, zpixvars, convvars, copyvars>>

CallDecodeSurveyid ==
    /\ SameEncoder("decode_surveyid")
    /\ \E n \in SurveyIds :
        issued' = issued \cup
            {[fn |-> "decode_surveyid", args |-> <<n>>,
              raised |-> decode_surveyid(Bits(n)) = KeyError,
              key |-> decode_surveyid(Bits(n))]}
    /\ UNCHANGED <<extvars, loadvars, finvars, zpixvars, convvars, copyvars>>

CallProgramid ==
    /\ SameEncoder("programid")
    /\ \E p \in Programs \cup UnknownNames :
        issued' = issued \cup
            {[fn |-> "programid", args |-> <<p>>,
              raised |-> programid(p) = KeyErrorInt, key |-> programid(p)]}
    /\ UNCHANGED <<extvars, loadvars, finvars, zpixvars, convvars, copyvars>>

CallSpgrpid ==
    /\ SameEncoder("spgrpid")
    /\ \E g \in Spgrps \cup UnknownNames :
        issued' = issued \cup
            {[fn |-> "spgrpid", args |-> <<g>>,
              raised |-> spgrpid(g) = KeyErrorInt, key |-> spgrpid(g)]}
    /\ UNCHANGED <<extvars, loadvars, finvars, zpixvars, convvars, copyvars>>

\* the 30 camera names
Cameras == {<<c, d>> : c \in {"b", "r", "z"}, d \in DOMAIN int}
SomeCameras == {<<"b", "0">>, <<"r", "5">>, <<"z", "9">>}
\* exposure numbers: small ones, and the two around (2^31 - 1) / 100
Expids == {{}, {0}, {1}}
WideExpids == {Bits(12345), Bits(21474836), Bits(21474837)}
\* the integer types an EXPID column can have: the expid column of the
\* database is Integer, 32 bit
Widths32 == {32, 64}

CallCameraid ==
    /\ SameEncoder("cameraid")
    /\ \E c \in Cameras :
        issued' = issued \cup
            {[fn |-> "cameraid", raised |-> FALSE, args |-> <<c>>, key |-> cameraid(c)]}
    /\ UNCHANGED <<extvars, loadvars, finvars, zpixvars, convvars, copyvars>>

CallFrameid ==
    /\ SameEncoder("frameid")
    /\ \E e \in Expids, c \in Cameras :
        issued' = issued \cup
            {[fn |-> "frameid", raised |-> FALSE, args |-> <<e, c>>, key |-> frameid(e, c)]}
    /\ UNCHANGED <<extvars, loadvars, finvars, zpixvars, convvars, copyvars>>

\* _frameid on a table of one row
CallLoadFrameid ==
    /\ SameEncoder("_frameid")
    /\ \E e \in WideExpids, c \in SomeCameras, w \in Widths32 :
        issued' = issued \cup
            {[fn |-> "_frameid", raised |-> FALSE, args |-> <<e, c, w>>,
              key |-> _frameid(<<[EXPID |-> e, CAMERA |-> c]>>, w)]}
    /\ UNCHANGED <<extvars, loadvars, finvars, zpixvars, convvars, copyvars>>

KeyNext ==
    \/ CallTargetphotid
    \/ CallZpixid
    \/ CallZtileid
    \/ CallFiberassignid
    \/ CallSurveyProgram
    \/ CallSurveyid
    \/ CallDecodeSurveyid
    \/ CallProgramid
    \/ CallSpgrpid
    \/ CallCameraid
    \/ CallFrameid
    \/ CallLoadFrameid

KeySpec == KeyInit /\ [][KeyNext]_vars

\* the arguments of a recorded call are inside the declared ranges
InRange(r) == r.fn \in {"ztileid", "_survey_program"} => Fits27(r.args[3])

\* C1: decoding the key that targetphotid makes of a survey of the table, a
\* TILEID below 2^32 and a TARGETID below 2^64 gives back (targetid, tileid,
\* survey).
C1_RoundTrip ==
    \A r \in issued :
        r.fn = "targetphotid" => decode_targetphotid(r.key) = r.args

\* C1 witness: a key made of the top bit of each field has been decoded.
C1_Witness ==
    \E r \in issued :
        /\ r.fn = "targetphotid"
        /\ r.args = <<{32, 63}, {31}, "main">>
        /\ r.key = {32, 63, 95, 97, 98}
        /\ decode_targetphotid(r.key) = r.args

\* C2: two distinct argument tuples inside the declared ranges, given to the
\* same one of targetphotid, zpixid, ztileid, fiberassignid, never get the
\* same key.
C2_NoCollision ==
    \A a, b \in issued :
        (/\ a.fn = b.fn
         /\ a.fn \in {"targetphotid", "zpixid", "ztileid", "fiberassignid"}
         /\ a.args # b.args
         /\ InRange(a) /\ InRange(b)) => a.key # b.key

\* C2 witness: two ztileid keys of the same target and tile whose groupings
\* differ only in the grouping value, both inside 27 bits.
C2_Witness ==
    \E a, b \in issued :
        /\ a.fn = "ztileid" /\ b.fn = "ztileid"
        /\ a.args = <<{32, 63}, "1x_depth", {}, {31}>>
        /\ b.args = <<{32, 63}, "1x_depth", {26}, {31}>>
        /\ a.key # b.key

\* C3: a grouping value that does not fit in 27 bits makes ztileid and the
\* Ztile branch of _survey_program raise, and its key is never that of
\* another (spgrp, spgrpval) pair.
C3_OverflowFailsFast ==
    /\ \A r \in issued :
          (r.fn \in {"ztileid", "_survey_program"} /\ ~Fits27(r.args[3]))
              => r.raised
    /\ \A a, b \in issued :
          (/\ a.fn = b.fn
           /\ a.fn \in {"ztileid", "_survey_program"}
           /\ ~a.raised /\ ~b.raised
           /\ a.args # b.args) => a.key # b.key

-----------------------------------------------------------------------------
(* specprodDB.load: the loaders of main, load_file and its row filters.    *)

\* bounds of the loader model: rows over all files of a stage, files of a
\* stage, invocations of main
MaxRows == 2
MaxFiles == 2
MaxRuns == 2

\* sample configurations
Chunksizes == {1, 2}
Maxrows == {0, 1}
Stages == {"photometry", "targetphot"}

\* the rows a TRACTORPHOT or TARGETPHOT file may hold: two rows of the same
\* TARGETID that differ in RELEASE and DCHISQ, and rows of two more TARGETIDs
RowValues ==
    {[TARGETID |-> 1, RELEASE |-> 0, BRICKID |-> 1, BRICK_OBJID |-> 1, DCHISQ |-> "a"],
     [TARGETID |-> 1, RELEASE |-> 1, BRICKID |-> 1, BRICK_OBJID |-> 1, DCHISQ |-> "b"],
     [TARGETID |-> 2, RELEASE |-> 0, BRICKID |-> 1, BRICK_OBJID |-> 1, DCHISQ |-> "c"],
     [TARGETID |-> 3, RELEASE |-> 0, BRICKID |-> 1, BRICK_OBJID |-> 1, DCHISQ |-> "d"]}

RECURSIVE SeqsUpTo(_)
SeqsUpTo(n) ==
    IF n = 0 THEN {<<>>}
    ELSE LET shorter == SeqsUpTo(n - 1)
         IN  shorter \cup {Append(q, r) : q \in {x \in shorter : Len(x) = n - 1},
                                         r \in RowValues}

\* the lists of at most m files that hold at most n rows altogether
RECURSIVE FileLists(_, _)
FileLists(m, n) ==
    IF m = 0 THEN {<<>>}
    ELSE {<<>>} \cup
         UNION {{<<file>> \o rest : rest \in FileLists(m - 1, n - Len(file))} :
                file \in SeqsUpTo(n)}

\* the loaders of main for the stages modelled
loaders ==
    [photometry |-> <<[tcls |-> "photometry", preload |-> "none",
                       rowfilter |-> "none"]>>,
     targetphot |-> <<[tcls |-> "photometry", preload |-> "_add_ls_id",
                       rowfilter |-> "_deduplicate_targetid"]>>,
     redshift |-> <<[tcls |-> "zpix", preload |-> "_survey_program",
                     rowfilter |-> "lambda"],
                    [tcls |-> "ztile", preload |-> "_survey_program",
                     rowfilter |-> "lambda"]>>,
     fiberassign |-> <<[tcls |-> "fiberassign", preload |-> "_tileid",
                        rowfilter |-> "lambda"],
                       [tcls |-> "potential", preload |-> "_tileid",
                        rowfilter |-> "lambda"]>>]

\* LS_ID = RELEASE << 40 | BRICKID << 16 | BRICK_OBJID
_add_ls_id(r) ==
    BitOr(BitOr(Shl(Bits(r.RELEASE), 40), Shl(Bits(r.BRICKID), 16)),
          Bits(r.BRICK_OBJID))

\* mr of load_file: the number of rows of a file that are looked at
Mr(n, mrows) == IF mrows = 0 \/ n < mrows THEN n ELSE mrows

\* the index of the first row of d whose TARGETID is t (numpy.unique with
\* return_index)
targetid_index(d, t) ==
    CHOOSE i \in 1..Len(d) :
        /\ d[i].TARGETID = t
        /\ \A h \in 1..(i - 1) : d[h].TARGETID # t

left_join_unmatched(d, photometry) ==
    [i \in 1..Len(d) |->
        [TARGETID |-> d[i].TARGETID, RELEASE |-> d[i].RELEASE, mask |-> TRUE]]

\* the left join of the batch and the loaded (targetid, ls_id) pairs on
\* TARGETID: one output row for each batch row, since targetid is the
\* primary key of Photometry; LS_ID is masked where no loaded row matches.
\* (join returns its rows sorted by TARGETID; nothing below reads the order.)
left_join(d, photometry) ==
    [i \in 1..Len(d) |->
        IF \E p \in photometry : p.targetid = d[i].TARGETID
        THEN [TARGETID |-> d[i].TARGETID, RELEASE |-> d[i].RELEASE, mask |-> FALSE]
        ELSE [TARGETID |-> d[i].TARGETID, RELEASE |-> d[i].RELEASE, mask |-> TRUE]]

_deduplicate_targetid_every(d, photometry) ==
    LET j == left_join(d, photometry)
        has_mask == \E i \in 1..Len(d) : j[i].mask
        load_targetids == {j[i].TARGETID : i \in {h \in 1..Len(d) : j[h].mask}}
    IN  [i \in 1..Len(d) |-> has_mask /\ d[i].TARGETID \in load_targetids]

\* the column j['LS_ID'] has a mask only if some row is unmatched; without
\* one the AttributeError is caught and load_rows stays all False
_deduplicate_targetid(d, photometry) ==
    LET j == left_join(d, photometry)
        has_mask == \E i \in 1..Len(d) : j[i].mask
        load_targetids == {j[i].TARGETID : i \in {h \in 1..Len(d) : j[h].mask}}
    IN  [i \in 1..Len(d) |->
            has_mask /\ \E t \in load_targetids : i = targetid_index(d, t)]

\* TARGETID is a signed 64 bit integer, held here in two's complement: bit
\* 63 is the sign, so x > 0 is "bit 63 clear and some bit set"
positive(t) == 63 \notin t /\ t # {}

rowfilter_lambda_positive(d) == [i \in 1..Len(d) |-> positive(d[i].TARGETID)]

\* lambda x: (x['TARGETID'] > 0) & ((x['TARGETID'] & 2**59) == 0)
rowfilter_lambda(d) ==
    [i \in 1..Len(d) |->
        positive(d[i].TARGETID) /\ BitAnd(d[i].TARGETID, {59}) = {}]

\* rowfilter(data[0:mr]), or all True without a row filter
RowFilter(name, d, tables) ==
    IF name = "_deduplicate_targetid"
    THEN _deduplicate_targetid(d, tables.photometry)
    ELSE IF name = "lambda" THEN rowfilter_lambda(d)
    ELSE [i \in 1..Len(d) |-> TRUE]

\* the indexes of the True entries of a mask, ascending
RECURSIVE GoodIndex(_, _)
GoodIndex(mask, i) ==
    IF i > Len(mask) THEN <<>>
    ELSE (IF mask[i] THEN <<i>> ELSE <<>>) \o GoodIndex(mask, i + 1)

\* desitarget.targets.decode_targetid: the SKY field is the one bit at 59
decode_targetid_sky(t) == Shr(BitAnd(t, Shl(LowMask(1), 59)), 59)

\* util.no_sky: np.where((sky == 0) & (catalog['TARGETID'] > 0))[0], the
\* indexes ascending; rows are numbered from 1 here
no_sky(d) ==
    GoodIndex([i \in 1..Len(d) |->
                  decode_targetid_sky(d[i].TARGETID) = {} /\ positive(d[i].TARGETID)], 1)

\* data_rows of load_file: the plain columns are data[col][0:mr][good_rows];
\* the expanded column is data[col][:, j] of the whole file, and zip() pairs
\* the two lists position by position
DataRows(file, mr, mask) ==
    LET g == GoodIndex(mask, 1)
    IN  [n \in 1..Len(g) |->
            [targetid |-> file[g[n]].TARGETID,
             ls_id |-> _add_ls_id(file[g[n]]),
             release |-> file[g[n]].RELEASE,
             dchisq_psf |-> file[n].DCHISQ]]

n_chunks_floor(finalrows, csize) == finalrows \div csize

n_chunks(finalrows, csize) ==
    finalrows \div csize + (IF finalrows % csize # 0 THEN 1 ELSE 0)

DataChunk_short(rows, kk, csize) ==
    SubSeq(rows, kk * csize + 1,
           IF (kk + 1) * csize - 1 < Len(rows) THEN (kk + 1) * csize - 1 ELSE Len(rows))

\* data_rows[k*chunksize:(k+1)*chunksize]
DataChunk(rows, kk, csize) ==
    SubSeq(rows, kk * csize + 1,
           IF (kk + 1) * csize < Len(rows) THEN (kk + 1) * csize ELSE Len(rows))

\* the insert of a chunk violates the primary key of the table
IntegrityError(chunk, table) ==
    \/ \E i \in 1..Len(chunk) : \E p \in table : p.targetid = chunk[i].targetid
    \/ \E i, h \in 1..Len(chunk) : i # h /\ chunk[i].targetid = chunk[h].targetid

LoadingComplete_never(loaded, stg) == FALSE
LoadingComplete_always(loaded, stg) == loaded > 0

\* main: "Loading appears to be complete"
LoadingComplete(loaded, stg) == loaded > 0 /\ stg # "targetphot"

\* the tables an earlier invocation may have left
InitialTables ==
    {[photometry |-> {}],
     [photometry |-> {[targetid |-> 1, ls_id |-> {0, 16}, release |-> 0,
                       dchisq_psf |-> "a"]}]}

Init ==
    /\ KeyIdle /\ FinIdle /\ ZpixIdle /\ ConvIdle /\ CopyIdle /\ ExtIdle
    /\ stage \in Stages
    /\ filepaths \in FileLists(MaxFiles, MaxRows)
    /\ unrecognized \in SUBSET {i \in 1..Len(filepaths) : filepaths[i] = <<>>}
    /\ executed = <<>>
    /\ chunksize \in Chunksizes
    /\ maxrows \in Maxrows
    /\ db \in InitialTables
    /\ start = db
    /\ pc = "idle" /\ l = 0 /\ f = 0 /\ k = 0
    /\ data = <<>> /\ good_rows = <<>> /\ data_rows = <<>> /\ loaded_rows = 0
    /\ run = 0 /\ ended = <<>>

Ended(how) ==
    [how |-> how, start |-> start, db |-> db, total |-> loaded_rows,
     midfile |-> pc = "chunk" /\ 0 < k /\ k < n_chunks(Len(data_rows), chunksize)]

\* main is invoked (again) for the same stage and the same files
StartRun ==
    /\ pc \in {"idle", "done", "failed", "terminated"}
    /\ run < MaxRuns
    /\ run' = run + 1
    /\ pc' = "stage" /\ l' = 1 /\ f' = 0 /\ k' = 0
    /\ data' = <<>> /\ good_rows' = <<>> /\ data_rows' = <<>> /\ loaded_rows' = 0
    /\ start' = db
    /\ executed' = <<>>
    /\ UNCHANGED <<extvars, issued, finvars, zpixvars, convvars, copyvars, unrecognized, stage, filepaths, chunksize, maxrows, db, ended>>

\* main: one pass of "for l in loader" up to the call of load_file
StageLoop ==
    /\ pc = "stage" /\ l <= Len(loaders[stage])
    /\ IF LoadingComplete(Cardinality(db[loaders[stage][l].tcls]), stage)
       THEN /\ l' = l + 1
            /\ UNCHANGED <<pc, f, loaded_rows>>
       ELSE /\ pc' = "file" /\ f' = 1 /\ loaded_rows' = 0
            /\ UNCHANGED l
    /\ UNCHANGED <<extvars, issued, finvars, zpixvars, convvars, copyvars, unrecognized, executed, stage, filepaths, chunksize, maxrows, db, k, data,
                   good_rows, data_rows, run, start, ended>>

\* load_file: one file read, checked, filtered and converted into rows
ReadFile ==
    /\ pc = "file" /\ f <= Len(filepaths) /\ f \notin unrecognized
    /\ LET file == filepaths[f]
           mr == Mr(Len(file), maxrows)
           d == SubSeq(file, 1, mr)
           mask == RowFilter(loaders[stage][l].rowfilter, d, db)
           rows == DataRows(file, mr, mask)
       IN  /\ data' = d
           /\ good_rows' = mask
           /\ k' = 0
           /\ IF Len(rows) = 0
              THEN f' = f + 1 /\ UNCHANGED <<pc, data_rows>>
              ELSE pc' = "chunk" /\ data_rows' = rows /\ UNCHANGED f
    /\ UNCHANGED <<extvars, issued, finvars, zpixvars, convvars, copyvars, unrecognized, executed, stage, filepaths, chunksize, maxrows, db, l,
                   loaded_rows, run, start, ended>>

\* load_file: "Unrecognized data file": log.error and a bare return, the
\* files after it are not read; main logs "Finished loading" and goes on
UnrecognizedFile ==
    /\ pc = "file" /\ f <= Len(filepaths) /\ f \in unrecognized
    /\ pc' = "stage" /\ l' = l + 1
    /\ UNCHANGED <<extvars, issued, finvars, zpixvars, convvars, copyvars, unrecognized, executed, stage, filepaths,
                   chunksize, maxrows, db, f, k, data, good_rows, data_rows,
                   loaded_rows, run, start, ended>>

\* load_file: one chunk inserted by engine.execute, which commits it
InsertChunk ==
    /\ pc = "chunk" /\ k < n_chunks(Len(data_rows), chunksize)
    /\ LET data_chunk == DataChunk(data_rows, k, chunksize)
           tn == loaders[stage][l].tcls
       IN  /\ loaded_rows' = loaded_rows + Len(data_chunk)
           /\ IF IntegrityError(data_chunk, db[tn])
              THEN /\ pc' = "failed"
                   /\ ended' = Append(ended, [Ended("failed") EXCEPT !.midfile = FALSE])
                   /\ UNCHANGED <<db, k, executed>>
              ELSE /\ db' = [db EXCEPT ![tn] = @ \cup {data_chunk[i] : i \in 1..Len(data_chunk)}]
                   /\ k' = k + 1
                   /\ executed' = executed \o
                          [i \in 1..Len(data_chunk) |->
                              [file |-> f, row |-> k * chunksize + i,
                               finalrows |-> Len(data_rows)]]
                   /\ UNCHANGED <<pc, ended>>
    /\ UNCHANGED <<extvars, issued, finvars, zpixvars, convvars, copyvars, unrecognized, stage, filepaths, chunksize, maxrows, l, f, data,
                   good_rows, data_rows, run, start>>

\* load_file: dbSession.commit() after the chunks of a file
CommitFile ==
    /\ pc = "chunk" /\ k = n_chunks(Len(data_rows), chunksize)
    /\ pc' = "file" /\ f' = f + 1
    /\ UNCHANGED <<extvars, issued, finvars, zpixvars, convvars, copyvars, unrecognized, executed, stage, filepaths, chunksize, maxrows, db, l, k, data,
                   good_rows, data_rows, loaded_rows, run, start, ended>>

\* load_file returns loaded_rows and the stage loop goes on
ReturnLoadFile ==
    /\ pc = "file" /\ f > Len(filepaths)
    /\ pc' = "stage" /\ l' = l + 1
    /\ UNCHANGED <<extvars, issued, finvars, zpixvars, convvars, copyvars, unrecognized, executed, stage, filepaths, chunksize, maxrows, db, f, k, data,
                   good_rows, data_rows, loaded_rows, run, start, ended>>

\* main returns 0
ReturnMain ==
    /\ pc = "stage" /\ l > Len(loaders[stage])
    /\ pc' = "done"
    /\ ended' = Append(ended, [Ended("done") EXCEPT !.midfile = FALSE])
    /\ UNCHANGED <<extvars, issued, finvars, zpixvars, convvars, copyvars, unrecognized, executed, stage, filepaths, chunksize, maxrows, db, l, f, k,
                   data, good_rows, data_rows, loaded_rows, run, start>>

\* the process is killed; what has been committed stays
Terminate ==
    /\ pc \in {"stage", "file", "chunk"}
    /\ pc' = "terminated"
    /\ ended' = Append(ended, Ended("terminated"))
    /\ UNCHANGED <<extvars, issued, finvars, zpixvars, convvars, copyvars, unrecognized, executed, stage, filepaths, chunksize, maxrows, db, l, f, k,
                   data, good_rows, data_rows, loaded_rows, run, start>>

Next ==
    \/ StartRun
    \/ StageLoop
    \/ ReadFile
    \/ UnrecognizedFile
    \/ InsertChunk
    \/ CommitFile
    \/ ReturnLoadFile
    \/ ReturnMain
    \/ Terminate

Spec == Init /\ [][Next]_vars

-----------------------------------------------------------------------------
(* SkySpec: main asked for the redshift or the fiberassign stage, whose    *)
(* four loaders share one row filter.                                      *)

\* the rows a ZCATALOG or FIBERASSIGN HDU may hold: a target, a sky target
\* (bit 59), a negative TARGETID (a stuck positioner) and TARGETID 0; the
\* other columns are those of RowValues, DCHISQ standing for the expanded
\* column
SkyRowValues ==
    {[TARGETID |-> {0}, RELEASE |-> 0, BRICKID |-> 1, BRICK_OBJID |-> 1, DCHISQ |-> "a"],
     [TARGETID |-> {0, 59}, RELEASE |-> 0, BRICKID |-> 1, BRICK_OBJID |-> 1, DCHISQ |-> "b"],
     [TARGETID |-> (0..63) \ {0, 59}, RELEASE |-> 0, BRICKID |-> 1, BRICK_OBJID |-> 1,
      DCHISQ |-> "c"],
     [TARGETID |-> {}, RELEASE |-> 0, BRICKID |-> 1, BRICK_OBJID |-> 1, DCHISQ |-> "d"]}

RECURSIVE SkySeqsUpTo(_)
SkySeqsUpTo(n) ==
    IF n = 0 THEN {<<>>}
    ELSE LET shorter == SkySeqsUpTo(n - 1)
         IN  shorter \cup {Append(q, r) : q \in {x \in shorter : Len(x) = n - 1},
                                         r \in SkyRowValues}

RECURSIVE SkyFileLists(_, _)
SkyFileLists(m, n) ==
    IF m = 0 THEN {<<>>}
    ELSE {<<>>} \cup
         UNION {{<<file>> \o rest : rest \in SkyFileLists(m - 1, n - Len(file))} :
                file \in SkySeqsUpTo(n)}

SkyStages == {"redshift", "fiberassign"}

SkyInit ==
    /\ KeyIdle /\ FinIdle /\ ZpixIdle /\ ConvIdle /\ CopyIdle /\ ExtIdle
    /\ stage \in SkyStages
    /\ filepaths \in SkyFileLists(MaxFiles, MaxRows)
    /\ unrecognized \in SUBSET {i \in 1..Len(filepaths) : filepaths[i] = <<>>}
    /\ executed = <<>>
    /\ chunksize \in Chunksizes
    /\ maxrows \in Maxrows
    /\ db = [zpix |-> {}, ztile |-> {}, fiberassign |-> {}, potential |-> {}]
    /\ start = db
    /\ pc = "idle" /\ l = 0 /\ f = 0 /\ k = 0
    /\ data = <<>> /\ good_rows = <<>> /\ data_rows = <<>> /\ loaded_rows = 0
    /\ run = 0 /\ ended = <<>>

SkySpec == SkyInit /\ [][Next]_vars

\* C18: after any sequence of redshift and fiberassign loads, every row of
\* zpix, ztile, fiberassign and potential has targetid > 0 and bit 59, the
\* sky bit, of targetid clear; and no_sky of the table load_file has read
\* returns exactly the indexes, ascending, of its rows with TARGETID > 0 and
\* sky bit 0.
C18_NonSky ==
    /\ \A tn \in {"zpix", "ztile", "fiberassign", "potential"} :
        \A r \in db[tn] : 63 \notin r.targetid /\ r.targetid # {} /\ 59 \notin r.targetid
    /\ LET idx == no_sky(data)
           keep(i) == /\ 63 \notin data[i].TARGETID /\ data[i].TARGETID # {}
                      /\ 59 \notin data[i].TARGETID
       IN  /\ \A n \in 1..Len(idx) : idx[n] \in 1..Len(data) /\ keep(idx[n])
           /\ \A i \in 1..Len(data) : keep(i) => \E n \in 1..Len(idx) : idx[n] = i
           /\ \A n \in 1..(Len(idx) - 1) : idx[n] < idx[n + 1]

\* C18 witness: a file of a sky target and a target has been loaded into
\* zpix and ztile, which hold the target only; no_sky picks row 2 of the file.
C18_Witness ==
    /\ stage = "redshift" /\ pc = "done"
    /\ Len(data) = 2 /\ data[1].TARGETID = {0, 59} /\ data[2].TARGETID = {0}
    /\ no_sky(data) = <<2>>
    /\ Cardinality(db.zpix) = 1 /\ Cardinality(db.ztile) = 1
    /\ \A r \in db.zpix \cup db.ztile : r.targetid = {0}

\* what load_file does to the tables t0 when nothing interrupts it, told
\* without chunks: each file's filtered rows go in whole, and the total is
\* the number of rows that passed the row filter
RECURSIVE WholeLoad(_, _, _, _)
WholeLoad(i, tables, total, ldr) ==
    IF i > Len(filepaths) \/ i \in unrecognized
    THEN [ok |-> TRUE, db |-> tables, total |-> total]
    ELSE LET file == filepaths[i]
             mr == Mr(Len(file), maxrows)
             mask == RowFilter(ldr.rowfilter, SubSeq(file, 1, mr), tables)
             rows == DataRows(file, mr, mask)
         IN  IF IntegrityError(rows, tables[ldr.tcls])
             THEN [ok |-> FALSE, db |-> tables, total |-> total]
             ELSE WholeLoad(i + 1,
                            [tables EXCEPT ![ldr.tcls] =
                                @ \cup {rows[n] : n \in 1..Len(rows)}],
                            total + Cardinality({n \in 1..mr : mask[n]}), ldr)

\* the run began with a table that main does not take for loaded
Loads(e) == ~LoadingComplete(Cardinality(e.start[loaders[stage][1].tcls]), stage)

\* what an uninterrupted run of main does to the tables t0
WholeRun(e) ==
    IF Loads(e) THEN WholeLoad(1, e.start, 0, loaders[stage][1])
    ELSE [ok |-> TRUE, db |-> e.start, total |-> 0]

C9_DedupMask ==
    (stage = "targetphot" /\ k = 0)
        => /\ DOMAIN good_rows = 1..Len(data)
           /\ \A i \in 1..Len(data) :
                good_rows[i] <=>
                    /\ \A p \in db.photometry : p.targetid # data[i].TARGETID
                    /\ \A h \in 1..(i - 1) : data[h].TARGETID # data[i].TARGETID

\* C9 witness: a batch of a loaded TARGETID with another RELEASE and of a new
\* TARGETID has been filtered: only the row of the new one is kept.
C9_Witness ==
    /\ stage = "targetphot" /\ k = 0 /\ pc = "chunk"
    /\ Len(data) = 2
    /\ data[1].TARGETID = 1 /\ data[1].RELEASE = 1
    /\ \E p \in db.photometry : p.targetid = 1 /\ p.release = 0
    /\ data[2].TARGETID = 2
    /\ good_rows = <<FALSE, TRUE>>

\* C10: when a run is terminated between two chunks of a file, a later run of
\* the same stage on the same files that completes leaves the tables as an
\* uninterrupted run would have.
C10_Resumption ==
    \A i \in 2..Len(ended) :
        (/\ ended[1].how = "terminated" /\ ended[1].midfile
         /\ ended[i].how = "done"
         /\ WholeRun(ended[1]).ok)
            => ended[i].db = WholeRun(ended[1]).db

\* the entries of the insert log that belong to file g
ExecutedOf(g) == SelectSeq(executed, LAMBDA e : e.file = g)

\* C11: at every point of load_file the rows of the current file that are
\* persisted are a prefix of the file's filtered rows made of whole chunks of
\* exactly chunksize rows (only the last chunk of a file may be shorter);
\* chunks go in in file row order, files in list order, and every row of an
\* earlier file is persisted before the first row of a later file.
C11_DurablePrefix ==
    /\ \A i \in 1..(Len(executed) - 1) : executed[i].file <= executed[i + 1].file
    /\ \A g \in {executed[i].file : i \in 1..Len(executed)} :
        LET rows == ExecutedOf(g)
            finalrows == rows[1].finalrows
        IN  /\ \A n \in 1..Len(rows) : rows[n].row = n
            /\ Len(rows) <= finalrows
            /\ Len(rows) < finalrows
                   => /\ g = f /\ pc \in {"chunk", "failed", "terminated"}
                      /\ Len(rows) = k * chunksize
    /\ pc = "chunk"
           => LET m == IF k * chunksize < Len(data_rows)
                       THEN k * chunksize ELSE Len(data_rows)
              IN  /\ Len(ExecutedOf(f)) = m
                  /\ \A n \in 1..m : data_rows[n] \in db[loaders[stage][l].tcls]
    /\ (pc = "file" /\ f > 1 /\ (f - 1) \notin unrecognized /\ data_rows # <<>>)
           => \A n \in 1..Len(data_rows) :
                  data_rows[n] \in db[loaders[stage][l].tcls]

\* C11 witness: the first chunk of a file of two filtered rows is persisted
\* and the process is killed before the second.
C11_Witness ==
    /\ pc = "terminated" /\ chunksize = 1
    /\ Len(data_rows) = 2 /\ k = 1
    /\ Len(executed) = 1 /\ executed[1].row = 1
    /\ data_rows[1] \in db.photometry /\ data_rows[2] \notin db.photometry

\* C12: when the files of a stage hold the same key more than once, or a key
\* that is already persisted, the loader drops or resolves the duplicate row
\* itself: no insert violates the primary key or the unique index of the
\* table and no load is aborted by a duplicate key.
C12_NoDuplicateKeyAbort ==
    /\ pc # "failed"
    /\ \A i \in 1..Len(ended) : ended[i].how # "failed"

\* the TARGETIDs of the rows load_file looks at: the first maxrows rows of
\* each file, or all of them when maxrows = 0
Considered ==
    UNION {{filepaths[g][i].TARGETID : i \in 1..Mr(Len(filepaths[g]), maxrows)} :
              g \in 1..Len(filepaths)}

\* C13: once the targetphot stage has completed over the target files (whose
\* names main builds, all ending in .fits), on top of whatever the photometry
\* stage loaded, every TARGETID among the rows considered has exactly one
\* Photometry row, so every Target row that the target stage makes of the
\* same rows references an existing Photometry row.
C13_TargetPhotometry ==
    (stage = "targetphot" /\ pc = "done" /\ unrecognized = {})
        => \A t \in Considered :
               Cardinality({p \in db.photometry : p.targetid = t}) = 1

\* C13 witness: a targetphot run over a file with a loaded and a new TARGETID
\* has completed.
C13_Witness ==
    /\ stage = "targetphot" /\ pc = "done" /\ unrecognized = {}
    /\ start.photometry # {}
    /\ Considered = {1, 2}
    /\ Cardinality(db.photometry) = 2

\* C14: every row that load_file inserts holds, in each scalar column made by
\* expanding a vector column, the element of the vector of the same source
\* row that supplied the row's other columns, also when the row filter or
\* maxrows removes rows.
C14_ExpansionAligned ==
    pc = "chunk"
        => LET g == GoodIndex(good_rows, 1)
               m == IF k * chunksize < Len(data_rows)
                    THEN k * chunksize ELSE Len(data_rows)
           IN  \A n \in 1..m :
                   /\ data_rows[n].targetid = data[g[n]].TARGETID
                   /\ data_rows[n].dchisq_psf = data[g[n]].DCHISQ

-----------------------------------------------------------------------------
(* specprodDB.load.load_file: the integrity check of one floating point    *)
(* column.  A cell is the text of its value; a 1-D column is a sequence of  *)
(* cells and a 2-D column a sequence of rows of cells.                      *)

\* how many rows the file of the checked column has at most
FinRows == 2

Cells == {"1.5", "nan", "inf", "-inf"}
sentinel == "-9999.0"

\* numpy.isnan and numpy.isfinite of one cell
isnan(c) == c = "nan"
isfinite(c) == c \notin {"nan", "inf", "-inf"}

\* the columns a file can hold: ndim 1 or 2, a MaskedColumn or not; the code
\* works on the underlying array of a MaskedColumn and never reads its mask
Widths == {2}
ColumnData(n, S) == UNION {[1..m -> S] : m \in 1..n}
Columns ==
    [ndim : {1}, masked : BOOLEAN, data : ColumnData(FinRows, Cells)]
    \cup
    [ndim : {2}, masked : BOOLEAN,
     data : ColumnData(FinRows, UNION {[1..w -> Cells] : w \in Widths})]

\* bad = np.isnan(data[col][0:mr]); data[col][0:mr][bad] = -9999.0
Finitize(c, mr) ==
    [c EXCEPT !.data =
        [i \in 1..Len(c.data) |->
            IF i > mr THEN c.data[i]
            ELSE IF c.ndim = 1
                 THEN IF isnan(c.data[i]) THEN sentinel ELSE c.data[i]
                 ELSE [j \in 1..Len(c.data[i]) |->
                          IF isnan(c.data[i][j]) THEN sentinel ELSE c.data[i][j]]]]

FinInit ==
    /\ KeyIdle /\ ZpixIdle /\ ConvIdle /\ CopyIdle /\ ExtIdle
    /\ stage = "" /\ filepaths = <<>> /\ chunksize = 1
    /\ db = [photometry |-> {}] /\ pc = "off" /\ l = 0 /\ f = 0 /\ k = 0
    /\ data = <<>> /\ good_rows = <<>> /\ data_rows = <<>> /\ loaded_rows = 0
    /\ run = 0 /\ start = [photometry |-> {}] /\ ended = <<>>
    /\ unrecognized = {} /\ executed = <<>>
    /\ maxrows \in Maxrows
    /\ column \in Columns
    /\ before = column
    /\ fpc = "read"
    /\ data_list = <<>>

\* the body of the loop over colnames for a column of dtype kind 'f'
IntegrityCheck ==
    /\ fpc = "read"
    /\ column' = Finitize(column, Mr(Len(column.data), maxrows))
    /\ fpc' = "checked"
    /\ UNCHANGED <<extvars, issued, loadvars, zpixvars, convvars, copyvars, before, data_list>>

\* data_list.append(data[col][0:mr][good_rows].tolist()), no row filter
ColumnToList ==
    /\ fpc = "checked"
    /\ data_list' = SubSeq(column.data, 1, Mr(Len(column.data), maxrows))
    /\ fpc' = "listed"
    /\ UNCHANGED <<extvars, issued, loadvars, zpixvars, convvars, copyvars, column, before>>

FinNext == IntegrityCheck \/ ColumnToList

FinSpec == FinInit /\ [][FinNext]_vars

\* the cells of a row, whatever the dimension of its column
CellsOf(c, i) ==
    IF c.ndim = 1 THEN {<<1, c.data[i]>>}
    ELSE {<<j, c.data[i][j]>> : j \in 1..Len(c.data[i])}
CellAt(c, i, j) == IF c.ndim = 1 THEN c.data[i] ELSE c.data[i][j]

\* C6: once the integrity check of load_file has run, every cell of the
\* floating point column among the rows that will be loaded is finite, and
\* every cell that was NaN, +infinity or -infinity equals the sentinel -9999.0.
C6_FinitizerTotality ==
    fpc \in {"checked", "listed"}
        => \A i \in 1..Mr(Len(column.data), maxrows) :
               \A jc \in CellsOf(column, i) :
                   /\ isfinite(jc[2])
                   /\ ~isfinite(CellAt(before, i, jc[1])) => jc[2] = sentinel

-----------------------------------------------------------------------------
(* specprodDB.load.zpix_target: the targeting bitmask reconciliation.  A    *)
(* row of Target or Zpix holds its 17 targeting bitmask columns in the      *)
(* field masks, each a bit-set integer, so that BIT_OR is the union.        *)

\* the surveys of a production in the order of the dictionary
survey_order ==
    [fuji |-> <<"cmx", "special", "sv1", "sv2", "sv3">>,
     guadalupe |-> <<"special", "main">>,
     iron |-> <<"cmx", "main", "special", "sv1", "sv2", "sv3">>]

specprod_survey_program ==
    [fuji |-> [cmx |-> <<"other">>,
               special |-> <<"dark">>,
               sv1 |-> <<"backup", "bright", "dark", "other">>,
               sv2 |-> <<"backup", "bright", "dark">>,
               sv3 |-> <<"backup", "bright", "dark">>],
     guadalupe |-> [special |-> <<"bright", "dark">>,
                    main |-> <<"bright", "dark">>],
     iron |-> [cmx |-> <<"other">>,
               main |-> <<"backup", "bright", "dark">>,
               special |-> <<"backup", "bright", "dark", "other">>,
               sv1 |-> <<"backup", "bright", "dark", "other">>,
               sv2 |-> <<"backup", "bright", "dark">>,
               sv3 |-> <<"backup", "bright", "dark">>]]

\* the columns of Target in which a disagreement is looked for, by survey
target_bits ==
    [cmx |-> {"cmx_target"},
     sv1 |-> {"sv1_desi_target", "sv1_bgs_target", "sv1_mws_target"},
     sv2 |-> {"sv2_desi_target", "sv2_bgs_target", "sv2_mws_target"},
     sv3 |-> {"sv3_desi_target", "sv3_bgs_target", "sv3_mws_target"},
     main |-> {"desi_target", "bgs_target", "mws_target"},
     special |-> {"desi_target", "bgs_target", "mws_target"}]

\* the columns that are recomputed and written to Zpix
masks ==
    {"cmx_target",
     "desi_target", "bgs_target", "mws_target", "scnd_target",
     "sv1_desi_target", "sv1_bgs_target", "sv1_mws_target", "sv1_scnd_target",
     "sv2_desi_target", "sv2_bgs_target", "sv2_mws_target", "sv2_scnd_target",
     "sv3_desi_target", "sv3_bgs_target", "sv3_mws_target", "sv3_scnd_target"}

RECURSIVE Concat(_)
Concat(ss) == IF ss = <<>> THEN <<>> ELSE Head(ss) \o Concat(Tail(ss))

\* the (survey, program) pairs of a production in the order of the loops
Partitions(sp) ==
    Concat([i \in 1..Len(survey_order[sp]) |->
        LET s == survey_order[sp][i]
        IN  [j \in 1..Len(specprod_survey_program[sp][s]) |->
                <<s, specprod_survey_program[sp][s][j]>>]])

\* the Target rows of one target in one survey and program
TargetRows(t, s, p) ==
    {r \in Target : r.targetid = t /\ r.survey = s /\ r.program = p}

\* Target joined to Fiberassign on targetid and tileid, grouped by targetid,
\* having count(Target.tileid) > 1
assigned_multiple_tiles(s, p) ==
    {t \in {r.targetid : r \in Target} :
        Cardinality({ra \in TargetRows(t, s, p) \X Fiberassign :
                        /\ ra[1].targetid = ra[2].targetid
                        /\ ra[1].tileid = ra[2].tileid}) > 1}

\* the targets among those with more than one distinct value of the column
multiple_target(s, p, bits) ==
    {t \in assigned_multiple_tiles(s, p) :
        Cardinality({r.masks[bits] : r \in TargetRows(t, s, p)}) > 1}

\* the Zpix targets of the partition with (targetid & ((2**16 - 1) << 42)) >> 42
\* equal to 9999
zero_ToO(s, p) ==
    {z.targetid : z \in {y \in Zpix :
        /\ y.survey = s /\ y.program = p
        /\ Shr(BitAnd(y.targetid, Shl(LowMask(16), 42)), 42) = Bits(9999)}}

\* the keys of a dictionary in the order of their first insertion
RECURSIVE Keys(_)
Keys(q) ==
    IF q = <<>> THEN <<>>
    ELSE LET rest == Keys(SubSeq(q, 1, Len(q) - 1))
             last == q[Len(q)][1]
         IN  IF \E i \in 1..Len(rest) : rest[i] = last THEN rest
             ELSE Append(rest, last)

\* the partitions of targetids_to_fix in the order the update loop meets
\* them: a survey is inserted when its first program is, the partitions with
\* disagreeing targets first and, for fuji, those with zeroed ToO targets after
FixOrder(sp) ==
    LET multiple == SelectSeq(Partitions(sp), LAMBDA q :
                        \E bits \in target_bits[q[1]] :
                            multiple_target(q[1], q[2], bits) # {})
        zeroed == IF sp = "fuji"
                  THEN SelectSeq(Partitions(sp), LAMBDA q :
                           /\ zero_ToO(q[1], q[2]) # {}
                           /\ \A i \in 1..Len(multiple) : multiple[i] # q)
                  ELSE <<>>
        inserted == multiple \o zeroed
        keys == Keys(inserted)
    IN  Concat([i \in 1..Len(keys) |->
                   SelectSeq(inserted, LAMBDA q : q[1] = keys[i])])

targetids_to_fix(sp, s, p) ==
    UNION {multiple_target(s, p, bits) : bits \in target_bits[s]}
        \cup (IF sp = "fuji" THEN zero_ToO(s, p) ELSE {})

\* func.bit_or of one column over the Target rows of a group
bit_or(rows, m) == UNION {r.masks[m] : r \in rows}

\* the rows of bit_or_query[survey][program]: one for each targetid to fix
\* that has Target rows in the partition
BitOrRows(sp, s, p) ==
    {[targetid |-> t,
      masks |-> [m \in masks |-> bit_or(TargetRows(t, s, p), m)]] :
        t \in {u \in targetids_to_fix(sp, s, p) : TargetRows(u, s, p) # {}}}

\* the queries of the update loop that return rows, in the order of the loop.
\* The code runs each query when the loop reaches it; Target, which is all
\* they read, is not written by zpix_target.
BitOrQuery(sp) ==
    LET order == FixOrder(sp)
        all == [i \in 1..Len(order) |->
                   [survey |-> order[i][1], program |-> order[i][2],
                    rows |-> BitOrRows(sp, order[i][1], order[i][2])]]
    IN  SelectSeq(all, LAMBDA q : q.rows # {})

\* zpix_match.cmx_target = row.cmx_target ... for the 17 columns
UpdateZpix_xor(z, row) ==
    [z EXCEPT !.masks = [m \in masks |->
        (z.masks[m] \ row.masks[m]) \cup (row.masks[m] \ z.masks[m])]]
UpdateZpix(z, row) == [z EXCEPT !.masks = [m \in masks |-> row.masks[m]]]

zpix_match_any_program(row, s, p) ==
    {z \in Zpix : z.targetid = row.targetid /\ z.survey = s}

\* the Zpix rows that the filter on targetid, survey and program selects
zpix_match(row, s, p) ==
    {z \in Zpix : z.targetid = row.targetid /\ z.survey = s /\ z.program = p}

\* how many tiles the target of a behaviour has Target rows on, and how many
\* times zpix_target is called
MaxTiles == 2
MaxCalls == 2

\* a production without an entry in specprod_survey_program is among them
Specprods == {"fuji", "guadalupe", "loa"}
DataSurveys == [fuji |-> {"sv1"}, guadalupe |-> {"main"}, loa |-> {"main"}]
DataPrograms == {"bright", "dark"}
\* an ordinary target and a ToO target, bits 42 to 57 equal to 9999
ZpixTargetIds == {{0}, Shl(Bits(9999), 42) \cup {0}}
DesiValues == {{0}, {1}}
ScndValues == {{}, {0}}

\* the desi and the secondary targeting column that the files of a survey fill
DesiColumn(s) == IF s = "main" THEN "desi_target" ELSE "sv1_desi_target"
ScndColumn(s) == IF s = "main" THEN "scnd_target" ELSE "sv1_scnd_target"

MaskColumns(s, d, sc) ==
    [m \in masks |-> IF m = DesiColumn(s) THEN d
                     ELSE IF m = ScndColumn(s) THEN sc ELSE {}]

\* the Zpix row of a partition as the zpix file gave it: the bitmasks of the
\* target's exposure on its first tile of the partition, or all zero
ZpixRow(t, s, p, rows, how) ==
    LET first == {r \in rows : r.program = p /\
                     \A q \in rows : q.program = p => r.tileid <= q.tileid}
    IN  [targetid |-> t, survey |-> s, program |-> p,
         masks |-> IF how = "first" /\ first # {}
                   THEN (CHOOSE r \in first : TRUE).masks
                   ELSE MaskColumns(s, {}, {})]

ZpixInit ==
    /\ KeyIdle /\ FinIdle /\ ConvIdle /\ CopyIdle /\ ExtIdle
    /\ stage = "" /\ filepaths = <<>> /\ chunksize = 1 /\ maxrows = 0
    /\ db = [photometry |-> {}] /\ pc = "off" /\ l = 0 /\ f = 0 /\ k = 0
    /\ data = <<>> /\ good_rows = <<>> /\ data_rows = <<>> /\ loaded_rows = 0
    /\ run = 0 /\ start = [photometry |-> {}] /\ ended = <<>>
    /\ unrecognized = {} /\ executed = <<>>
    /\ specprod \in Specprods
    /\ \E t \in ZpixTargetIds, s \in DataSurveys[specprod], n \in 1..MaxTiles :
       \E prog \in [1..n -> DataPrograms], d \in [1..n -> DesiValues],
          sc \in [1..n -> ScndValues], fa \in SUBSET (1..n),
          zp \in [DataPrograms -> {"none", "first", "zero"}] :
           LET rows == {[targetid |-> t, survey |-> s, program |-> prog[i],
                         tileid |-> i, masks |-> MaskColumns(s, d[i], sc[i])] :
                            i \in 1..n}
           IN  /\ Target = rows
               /\ Fiberassign = {[targetid |-> t, tileid |-> i, location |-> 1] :
                                    i \in fa}
               /\ Zpix = {ZpixRow(t, s, p, rows, zp[p]) :
                             p \in {q \in DataPrograms : zp[q] # "none"}}
    /\ zpc = "idle" /\ zstart = Zpix /\ bit_or_query = <<>> /\ calls = <<>>

Called(how) == [how |-> how, start |-> zstart, zpix |-> Zpix]

\* specprod_survey_program[specprod] of an unlisted production
ZpixTargetKeyError ==
    /\ zpc = "idle" /\ Len(calls) < MaxCalls
    /\ specprod \notin DOMAIN specprod_survey_program
    /\ calls' = Append(calls, [how |-> KeyError, start |-> Zpix, zpix |-> Zpix])
    /\ UNCHANGED <<extvars, issued, loadvars, finvars, convvars, copyvars, specprod, Target, Fiberassign,
                   Zpix, zpc, zstart, bit_or_query>>

\* the queries up to bit_or_query
ZpixTargetQuery ==
    /\ zpc = "idle" /\ Len(calls) < MaxCalls
    /\ specprod \in DOMAIN specprod_survey_program
    /\ bit_or_query' = BitOrQuery(specprod)
    /\ zstart' = Zpix
    /\ zpc' = "update"
    /\ UNCHANGED <<extvars, issued, loadvars, finvars, convvars, copyvars, specprod, Target, Fiberassign,
                   Zpix, calls>>

ZpixTargetUpdate_uncommitted ==
    /\ zpc = "update" /\ bit_or_query # <<>>
    /\ LET q == Head(bit_or_query)
       IN  \E row \in q.rows :
               /\ zpix_match(row, q.survey, q.program) # {}
               /\ bit_or_query' =
                      IF q.rows = {row} THEN Tail(bit_or_query)
                      ELSE [bit_or_query EXCEPT ![1].rows = @ \ {row}]
    /\ UNCHANGED <<extvars, issued, loadvars, finvars, convvars, copyvars, specprod, Target, Fiberassign,
                   Zpix, zpc, zstart, calls>>

\* one pass of the update loop: .one(), the 17 assignments and the commit
ZpixTargetUpdate ==
    /\ zpc = "update" /\ bit_or_query # <<>>
    /\ LET q == Head(bit_or_query)
       IN  \E row \in q.rows :
               LET match == zpix_match(row, q.survey, q.program)
               IN  /\ match # {}
                   /\ Zpix' = (Zpix \ match) \cup {UpdateZpix(z, row) : z \in match}
                   /\ bit_or_query' =
                          IF q.rows = {row} THEN Tail(bit_or_query)
                          ELSE [bit_or_query EXCEPT ![1].rows = @ \ {row}]
    /\ UNCHANGED <<extvars, issued, loadvars, finvars, convvars, copyvars, specprod, Target, Fiberassign,
                   zpc, zstart, calls>>

\* .one() finds no Zpix row: NoResultFound leaves zpix_target and main, the
\* updates committed before stay
ZpixTargetNoResultFound ==
    /\ zpc = "update" /\ bit_or_query # <<>>
    /\ \E row \in Head(bit_or_query).rows :
           zpix_match(row, Head(bit_or_query).survey, Head(bit_or_query).program) = {}
    /\ calls' = Append(calls, Called("NoResultFound"))
    /\ zpc' = "idle" /\ bit_or_query' = <<>>
    /\ UNCHANGED <<extvars, issued, loadvars, finvars, convvars, copyvars, specprod, Target, Fiberassign,
                   Zpix, zstart>>

ZpixTargetReturn ==
    /\ zpc = "update" /\ bit_or_query = <<>>
    /\ calls' = Append(calls, Called("return"))
    /\ zpc' = "idle"
    /\ UNCHANGED <<extvars, issued, loadvars, finvars, convvars, copyvars, specprod, Target, Fiberassign,
                   Zpix, zstart, bit_or_query>>

ZpixNext ==
    \/ ZpixTargetKeyError
    \/ ZpixTargetQuery
    \/ ZpixTargetUpdate
    \/ ZpixTargetNoResultFound
    \/ ZpixTargetReturn

ZpixSpec == ZpixInit /\ [][ZpixNext]_vars

\* the tiles of a partition that a target is assigned to
AssignedTiles(t, s, p) ==
    {r.tileid : r \in {x \in TargetRows(t, s, p) :
        \E a \in Fiberassign : a.targetid = t /\ a.tileid = x.tileid}}

\* the Target rows of a partition do not all hold the same value of a column
Disagree(t, s, p, cols) ==
    \E m \in cols : \E r1, r2 \in TargetRows(t, s, p) : r1.masks[m] # r2.masks[m]

\* the last call of zpix_target has returned
Returned ==
    zpc = "idle" /\ calls # <<>> /\ calls[Len(calls)].how = "return"

\* every targeting bitmask column of the Zpix rows of the partition is the
\* bitwise OR of the column over the Target rows of the partition
Reconciled(t, s, p) ==
    \A z \in Zpix :
        (z.targetid = t /\ z.survey = s /\ z.program = p)
            => \A m \in masks :
                   z.masks[m] = UNION {r.masks[m] : r \in TargetRows(t, s, p)}

\* C7: after zpix_target(specprod), for every target assigned to more than
\* one tile within one survey/program partition whose Target rows disagree in
\* a targeting bitmask, each targeting bitmask column of the Zpix row of
\* (targetid, survey, program) is the bitwise OR of that column over all the
\* Target rows with the same targetid, survey and program.
C7_ReconciliationResult ==
    Returned
        => \A r \in Target :
               (/\ Cardinality(AssignedTiles(r.targetid, r.survey, r.program)) > 1
                /\ Disagree(r.targetid, r.survey, r.program, masks))
                   => Reconciled(r.targetid, r.survey, r.program)

\* C8: when zpix_target is called twice in succession on the same database,
\* every Zpix column value after the second call is what it was after the
\* first call.
C8_IdempotentReconciliation ==
    \A i \in 2..Len(calls) :
        calls[i - 1].how = "return"
            => calls[i].how = "return" /\ calls[i].zpix = calls[i - 1].zpix

\* two calls have returned and the first rewrote a Zpix row
C8_Witness ==
    /\ Len(calls) = 2
    /\ calls[1].how = "return" /\ calls[2].how = "return"
    /\ calls[1].zpix # calls[1].start

-----------------------------------------------------------------------------
(* ConvSpec: the step that gives an input its dimensions.  For the         *)
(* redshift and fiberassign tables that is the preload function load_file  *)
(* calls on the table it has read; for the coefficient patch tables it is  *)
(* the convert method of the table class.  An input is described by the    *)
(* names of its columns, the keys of its metadata, the arguments given to  *)
(* convert, and its number of rows.                                        *)

\* the largest number of rows of an input
ConvRows == 2

Kinds == {"_survey_program", "_tileid", "ZpixPatch", "ZtilePatch"}
Preloads == {"_survey_program", "_tileid"}

\* the dimensions a conversion needs, by the name of their column
Required ==
    ("_survey_program" :> {"SURVEY", "PROGRAM"}) @@ ("_tileid" :> {"TILEID"}) @@
    ("ZpixPatch" :> {"SURVEY", "PROGRAM"}) @@ ("ZtilePatch" :> {"TILEID", "SPGRPVAL"})

\* str.upper on the names convert checks
upper ==
    ("survey" :> "SURVEY") @@ ("program" :> "PROGRAM") @@ ("tileid" :> "TILEID") @@
    ("spgrpval" :> "SPGRPVAL") @@ ("SURVEY" :> "SURVEY") @@ ("PROGRAM" :> "PROGRAM") @@
    ("TILEID" :> "TILEID") @@ ("SPGRPVAL" :> "SPGRPVAL") @@ ("None" :> "NONE") @@
    ("row_index" :> "ROW_INDEX") @@ ("tolist" :> "TOLIST") @@ ("" :> "")

NoError == [type |-> "", names |-> ""]
Raise(type, names) == [raised |-> [type |-> type, names |-> names], rows |-> 0]
Return(n) == [raised |-> NoError, rows |-> n]

\* the sequences of distinct row numbers of a table of n rows; rows are
\* numbered from 1 here, from 0 in the code
RowIndexes(n) ==
    {s \in UNION {[1..m -> 1..n] : m \in 0..n} :
        \A i, j \in DOMAIN s : i # j => s[i] # s[j]}

\* np.arange(len(data))
arange(n) == [i \in 1..n |-> i]

\* load._survey_program: SURVEY and PROGRAM, in that order, each from the
\* column of that name or else from the metadata; the KeyError of the
\* metadata lookup is logged and raised again
_survey_program(src) ==
    LET found(key) == key \in src.colnames \/ key \in src.meta
    IN  IF ~found("SURVEY") THEN Raise("KeyError", "SURVEY")
        ELSE IF ~found("PROGRAM") THEN Raise("KeyError", "PROGRAM")
        ELSE Return(src.nrows)

\* load._tileid: TILEID from the metadata only, then added as a new column,
\* which a table that already has a column of that name refuses
_tileid(src) ==
    IF "TILEID" \notin src.meta THEN Raise("KeyError", "TILEID")
    ELSE IF "TILEID" \in src.colnames THEN Raise("ValueError", "TILEID")
    ELSE Return(src.nrows)

\* finitize rewrites the non-finite cells of floating point columns and
\* raises nothing: names, metadata and number of rows are as they were
finitize(src) == src

\* the loop over check_columns that convert of both patch classes runs
RECURSIVE check_columns(_, _)
check_columns(src, columns) ==
    IF columns = <<>> THEN NoError
    ELSE LET col == Head(columns)
         IN  IF col \notin src.supplied /\ upper[col] \notin src.colnames
             THEN [type |-> "KeyError", names |-> col]
             ELSE check_columns(src, Tail(columns))

row_index_of(src) ==
    IF "row_index" \in src.supplied THEN src.row_index ELSE arange(src.nrows)

\* coeff.ZpixPatch.convert
ZpixPatch_convert(src) ==
    LET row_index == row_index_of(src)
        fin == finitize(src)
        checked == check_columns(fin, <<"survey", "program">>)
    IN  IF Len(row_index) = 0 THEN Return(0)
        ELSE IF checked # NoError THEN [raised |-> checked, rows |-> 0]
        ELSE IF "survey" \in fin.supplied
             THEN IF "program" \in fin.supplied
                  THEN Raise("AttributeError", "tolist")
                  ELSE Raise("KeyError", "None")
        ELSE IF "PROGRAM" \notin fin.colnames THEN Raise("KeyError", "PROGRAM")
        ELSE Return(Len(row_index))

\* coeff.ZtilePatch.convert
ZtilePatch_convert(src) ==
    LET row_index == row_index_of(src)
        fin == finitize(src)
        checked == check_columns(fin, <<"tileid", "spgrpval">>)
    IN  IF Len(row_index) = 0 THEN Return(0)
        ELSE IF checked # NoError THEN [raised |-> checked, rows |-> 0]
        ELSE IF "SPGRPVAL" \notin fin.colnames THEN Raise("KeyError", "SPGRPVAL")
        ELSE IF "TILEID" \notin fin.colnames THEN Raise("KeyError", "TILEID")
        ELSE Return(Len(row_index))

\* the arguments convert can be given besides data, under the names of
\* check_columns: ZtilePatch.convert takes spgrpval as its argument night
Arguments ==
    ("_survey_program" :> {}) @@ ("_tileid" :> {}) @@
    ("ZpixPatch" :> {"survey", "program", "row_index"}) @@
    ("ZtilePatch" :> {"tileid", "spgrpval", "row_index"})

Sources ==
    UNION {
        {[kind |-> kd, colnames |-> c, meta |-> m, supplied |-> a, nrows |-> n,
          row_index |-> r] :
            c \in SUBSET Required[kd], m \in SUBSET Required[kd],
            r \in IF "row_index" \in a THEN RowIndexes(n) ELSE {<<>>}} :
        kd \in Kinds, a \in SUBSET {"survey", "program", "tileid", "spgrpval",
                                     "row_index"},
        n \in 0..ConvRows}

ConvInit ==
    /\ KeyIdle /\ FinIdle /\ ZpixIdle /\ CopyIdle /\ ExtIdle
    /\ stage = "" /\ filepaths = <<>> /\ chunksize = 1 /\ maxrows = 0
    /\ db = [photometry |-> {}] /\ pc = "off" /\ l = 0 /\ f = 0 /\ k = 0
    /\ data = <<>> /\ good_rows = <<>> /\ data_rows = <<>> /\ loaded_rows = 0
    /\ run = 0 /\ start = [photometry |-> {}] /\ ended = <<>>
    /\ unrecognized = {} /\ executed = <<>>
    /\ source \in {src \in Sources : src.supplied \subseteq Arguments[src.kind]}
    /\ cpc = "read" /\ error = NoError /\ records = 0 /\ n_inserted = 0

\* what a conversion leaves: the exception it raised, or the rows it returned
Converted(out) ==
    /\ cpc = "read"
    /\ error' = out.raised
    /\ records' = out.rows
    /\ cpc' = IF out.raised # NoError THEN "raised" ELSE "converted"
    /\ UNCHANGED <<source, n_inserted>>
    /\ UNCHANGED <<extvars, issued, loadvars, finvars, zpixvars, copyvars>>

\* load_file: data = preload(data), for the zpix and ztile loaders
PreloadSurveyProgram ==
    /\ source.kind = "_survey_program"
    /\ Converted(_survey_program(source))

\* load_file: data = preload(data), for the fiberassign and potential loaders
PreloadTileid ==
    /\ source.kind = "_tileid"
    /\ Converted(_tileid(source))

ConvertZpixPatch ==
    /\ source.kind = "ZpixPatch"
    /\ Converted(ZpixPatch_convert(source))

ConvertZtilePatch ==
    /\ source.kind = "ZtilePatch"
    /\ Converted(ZtilePatch_convert(source))

\* the rows a conversion returned are the ones that are inserted; an
\* exception leaves load_file before it reaches the insert
InsertConverted ==
    /\ cpc = "converted"
    /\ n_inserted' = records
    /\ cpc' = "inserted"
    /\ UNCHANGED <<source, error, records>>
    /\ UNCHANGED <<extvars, issued, loadvars, finvars, zpixvars, copyvars>>

ConvNext ==
    \/ PreloadSurveyProgram
    \/ PreloadTileid
    \/ ConvertZpixPatch
    \/ ConvertZtilePatch
    \/ InsertConverted

ConvSpec == ConvInit /\ [][ConvNext]_vars

\* the required dimensions that are neither given as an argument nor present
\* as a column or a metadata entry of the input
Missing(src) ==
    {d \in Required[src.kind] :
        /\ d \notin src.colnames
        /\ d \notin src.meta
        /\ \A a \in src.supplied : upper[a] # d}

\* C16: when a required dimension is neither supplied nor present as a
\* column or metadata entry of the input, the conversion fails with an error
\* that names a missing field, and no row of that input is inserted.
C16_MissingContext ==
    (cpc # "read" /\ Missing(source) # {}) =>
        /\ cpc = "raised"
        /\ upper[error.names] \in Missing(source)
        /\ n_inserted = 0

-----------------------------------------------------------------------------
(* The dimension codec, under KeySpec.                                     *)

\* C17: surveyid, programid and spgrpid raise KeyError for every name that is
\* not in their table and decode_surveyid raises for every integer that is
\* not a survey id; for a name of the table the fixed integer is returned
\* (main is 6, special 2, bright 2, dark 3, cumulative 3, healpix 7), and
\* decode_surveyid(surveyid(s)) = s.
C17_CodecRejectsUnknown ==
    \A r \in issued :
        LET a == r.args[1]
        IN  /\ r.fn = "surveyid" =>
                IF a \in {"cmx", "special", "sv1", "sv2", "sv3", "main"}
                THEN /\ ~r.raised /\ r.key = _surveyid[a]
                     /\ a = "main" => r.key = 6
                     /\ a = "special" => r.key = 2
                     /\ decode_surveyid(Bits(r.key)) = a
                ELSE r.raised
            /\ r.fn = "programid" =>
                IF a \in {"backup", "bright", "dark", "other"}
                THEN /\ ~r.raised /\ r.key = _programid[a]
                     /\ a = "bright" => r.key = 2
                     /\ a = "dark" => r.key = 3
                ELSE r.raised
            /\ r.fn = "spgrpid" =>
                IF a \in {"1x_depth", "4x_depth", "cumulative", "lowspeed",
                          "perexp", "pernight", "healpix"}
                THEN /\ ~r.raised /\ r.key = _spgrpid[a]
                     /\ a = "cumulative" => r.key = 3
                     /\ a = "healpix" => r.key = 7
                ELSE r.raised
            /\ r.fn = "decode_surveyid" =>
                IF a \in 1..6
                THEN ~r.raised /\ surveyid(r.key) = a
                ELSE r.raised

\* C17 witness: surveyid has raised for 'foo' and returned 6 for 'main', which
\* decodes to 'main'.
C17_Witness ==
    /\ [fn |-> "surveyid", args |-> <<"foo">>, raised |-> TRUE, key |-> KeyErrorInt] \in issued
    /\ [fn |-> "surveyid", args |-> <<"main">>, raised |-> FALSE, key |-> 6] \in issued
    /\ decode_surveyid(Bits(6)) = "main"

-----------------------------------------------------------------------------
(* The frame key, under KeySpec.                                           *)

\* cameraid maps the 30 camera names one-to-one into 0..29, hence onto it
CameraidOneToOne ==
    \A r \in issued :
        r.fn = "cameraid" =>
            /\ r.key \in 0..29
            /\ r.args = <<<<"b", "0">>>> => r.key = 0
            /\ r.args = <<<<"r", "5">>>> => r.key = 15
            /\ r.args = <<<<"z", "9">>>> => r.key = 29
            /\ \A q \in issued : q.args # r.args => q.key # r.key

\* frameid is 100 * expid + cameraid, and distinct pairs get distinct values
FrameidDistinct ==
    \A r \in issued :
        r.fn = "frameid" =>
            /\ r.key = Add(Times100(r.args[1]), Bits(cameraid(r.args[2])))
            /\ \A q \in issued : q.args # r.args => q.key # r.key

\* C19: cameraid maps the 30 camera names {b, r, z} x {0..9} one-to-one onto
\* 0..29; frameid(expid, camera) = 100*expid + cameraid(camera), so two
\* distinct (expid, camera) pairs with expid >= 0 never get the same
\* frameid; and the FRAMEID that load._frameid computes for a row equals
\* frameid(EXPID, CAMERA).
C19_FrameKey ==
    /\ CameraidOneToOne
    /\ FrameidDistinct
    /\ \A r \in issued :
        r.fn = "_frameid" =>
            r.key[1] = [negative |-> FALSE, magnitude |-> frameid(r.args[1], r.args[2])]

-----------------------------------------------------------------------------
(* CopySpec: coeff.main reads the ZCATALOG table of a zall file and copies *)
(* the key columns and the ten coefficients of its rows into a patch table.*)

\* the largest number of rows of a catalog
CopyRows == 2

cols ==
    [pix |-> <<"TARGETID", "SURVEY", "PROGRAM", "HEALPIX", "DESINAME">>,
     tilecumulative |-> <<"TARGETID", "TILEID", "SPGRPVAL", "DESINAME">>]

\* f'COEFF_{k:d}' for k in range(10)
CoeffNames ==
    <<"COEFF_0", "COEFF_1", "COEFF_2", "COEFF_3", "COEFF_4", "COEFF_5", "COEFF_6",
      "COEFF_7", "COEFF_8", "COEFF_9">>

\* desiutil.names.radec_to_desiname: a name made of the two coordinates
radec_to_desiname(ra, dec) == <<"DESI", ra, dec>>

\* the rows a catalog may hold: a target, a sky target and another target,
\* which differ in every column; cell k of the COEFF of a row is marked with
\* the row and with k
CoeffOf(tag) == [j \in 0..9 |-> <<tag, j>>]

CatalogRowValues ==
    {("TARGETID" :> {0}) @@ ("SURVEY" :> "main") @@ ("PROGRAM" :> "dark") @@
     ("HEALPIX" :> 10) @@ ("TILEID" :> 100) @@ ("SPGRPVAL" :> 20210101) @@
     ("DESINAME" :> <<"DESI", 1, 1>>) @@ ("TARGET_RA" :> 1) @@ ("TARGET_DEC" :> 1) @@
     ("COEFF" :> CoeffOf("a")),
     ("TARGETID" :> {0, 59}) @@ ("SURVEY" :> "sv1") @@ ("PROGRAM" :> "bright") @@
     ("HEALPIX" :> 11) @@ ("TILEID" :> 101) @@ ("SPGRPVAL" :> 20210102) @@
     ("DESINAME" :> <<"DESI", 2, 2>>) @@ ("TARGET_RA" :> 2) @@ ("TARGET_DEC" :> 2) @@
     ("COEFF" :> CoeffOf("b")),
     ("TARGETID" :> {1}) @@ ("SURVEY" :> "sv3") @@ ("PROGRAM" :> "backup") @@
     ("HEALPIX" :> 12) @@ ("TILEID" :> 102) @@ ("SPGRPVAL" :> 20210103) @@
     ("DESINAME" :> <<"DESI", 3, 3>>) @@ ("TARGET_RA" :> 3) @@ ("TARGET_DEC" :> 3) @@
     ("COEFF" :> CoeffOf("c"))}

RECURSIVE CatalogRows(_)
CatalogRows(n) ==
    IF n = 0 THEN {<<>>}
    ELSE LET shorter == CatalogRows(n - 1)
         IN  shorter \cup {Append(q, r) : q \in {x \in shorter : Len(x) = n - 1},
                                         r \in CatalogRowValues}

\* the columns a ZCATALOG table has; DESINAME is absent from older ones
AllColumns ==
    {"TARGETID", "SURVEY", "PROGRAM", "HEALPIX", "TILEID", "SPGRPVAL", "DESINAME",
     "TARGET_RA", "TARGET_DEC", "COEFF"}

\* the row filters copy_columns is called with: no_sky by coeff.main, and one
\* that gives all the rows last to first
Rowfilters == {"no_sky", "reversed"}

Apply(filter, rows) ==
    IF filter = "no_sky" THEN no_sky(rows)
    ELSE [i \in 1..Len(rows) |-> Len(rows) + 1 - i]

\* the coefficients of row i of the catalog, not of row good_rows[i]
copy_columns_unfiltered(cat, filter, type) ==
    LET rows_kept == Apply(filter, cat.rows)
        copied(i) ==
            [c \in {cols[type][n] : n \in 1..Len(cols[type])} |->
                IF c \in cat.colnames THEN cat.rows[rows_kept[i]][c]
                ELSE radec_to_desiname(cat.rows[rows_kept[i]]["TARGET_RA"],
                                       cat.rows[rows_kept[i]]["TARGET_DEC"])]
        coeff(i) ==
            [c \in {CoeffNames[j] : j \in 1..10} |->
                LET j == CHOOSE h \in 1..10 : CoeffNames[h] = c
                IN  cat.rows[i]["COEFF"][j - 1]]
    IN  [meta |-> [EXTNAME |-> "COEFF_PATCH"],
         colnames |-> cols[type] \o CoeffNames,
         rows |-> [i \in 1..Len(rows_kept) |-> copied(i) @@ coeff(i)]]

\* coeff.copy_columns
copy_columns(cat, filter, type) ==
    LET rows_kept == Apply(filter, cat.rows)
        copied(i) ==
            [c \in {cols[type][n] : n \in 1..Len(cols[type])} |->
                IF c \in cat.colnames THEN cat.rows[rows_kept[i]][c]
                ELSE radec_to_desiname(cat.rows[rows_kept[i]]["TARGET_RA"],
                                       cat.rows[rows_kept[i]]["TARGET_DEC"])]
        coeff(i) ==
            [c \in {CoeffNames[j] : j \in 1..10} |->
                LET j == CHOOSE h \in 1..10 : CoeffNames[h] = c
                IN  cat.rows[rows_kept[i]]["COEFF"][j - 1]]
    IN  [meta |-> [EXTNAME |-> "COEFF_PATCH"],
         colnames |-> cols[type] \o CoeffNames,
         rows |-> [i \in 1..Len(rows_kept) |-> copied(i) @@ coeff(i)]]

CopyInit ==
    /\ KeyIdle /\ FinIdle /\ ZpixIdle /\ ConvIdle /\ ExtIdle
    /\ stage = "" /\ filepaths = <<>> /\ chunksize = 1 /\ maxrows = 0
    /\ db = [photometry |-> {}] /\ pc = "off" /\ l = 0 /\ f = 0 /\ k = 0
    /\ data = <<>> /\ good_rows = <<>> /\ data_rows = <<>> /\ loaded_rows = 0
    /\ run = 0 /\ start = [photometry |-> {}] /\ ended = <<>>
    /\ unrecognized = {} /\ executed = <<>>
    /\ catalog \in {[colnames |-> c, rows |-> r] :
                        c \in {AllColumns, AllColumns \ {"DESINAME"}},
                        r \in CatalogRows(CopyRows)}
    /\ catalog_type \in DOMAIN cols
    /\ rowfilter \in Rowfilters
    /\ new_table = <<>>
    /\ copc = "read" /\ patch_index = <<>> /\ patch_rows = <<>>

\* coeff.main: patch_table = copy_columns(zall_table, no_sky, catalog_type)
CopyColumns ==
    /\ copc = "read"
    /\ new_table' = copy_columns(catalog, rowfilter, catalog_type)
    /\ copc' = "copied"
    /\ UNCHANGED <<catalog, catalog_type, rowfilter, patch_index, patch_rows>>
    /\ UNCHANGED <<extvars, issued, loadvars, finvars, zpixvars, convvars>>

\* the subsets of the rows 1..n as index arrays, ascending
PatchIndexes(n) ==
    {GoodIndex([i \in 1..n |-> i \in keep], 1) : keep \in SUBSET (1..n)}

\* ZpixPatch.convert(data, row_index=row_index), survey and program taken
\* from the data: the columns id, targetid, survey, program of the records.
\* id0 is computed from data['SURVEY'] and data['PROGRAM'] of every row of
\* the table, and zip() pairs it with data['TARGETID'][row_index] position
\* by position; the other columns are data[name][row_index].
ZpixPatch_data_rows(tab, row_index) ==
    LET id0 == [i \in 1..Len(tab.rows) |->
                   BitOr(Shl(Bits(programid(tab.rows[i]["PROGRAM"])), 32),
                         Bits(surveyid(tab.rows[i]["SURVEY"])))]
        n == IF Len(id0) < Len(row_index) THEN Len(id0) ELSE Len(row_index)
    IN  [i \in 1..n |->
            [id |-> BitOr(Shl(id0[i], 64), tab.rows[row_index[i]]["TARGETID"]),
             targetid |-> tab.rows[row_index[i]]["TARGETID"],
             survey |-> tab.rows[row_index[i]]["SURVEY"],
             program |-> tab.rows[row_index[i]]["PROGRAM"]]]

\* the pix patch table is converted for loading, all of it or some rows
ConvertPatchRows ==
    /\ copc = "copied" /\ catalog_type = "pix"
    /\ \E row_index \in PatchIndexes(Len(new_table.rows)) :
           /\ patch_index' = row_index
           /\ patch_rows' = ZpixPatch_data_rows(new_table, row_index)
    /\ copc' = "converted"
    /\ UNCHANGED <<catalog, catalog_type, rowfilter, new_table>>
    /\ UNCHANGED <<extvars, issued, loadvars, finvars, zpixvars, convvars>>

CopyNext == CopyColumns \/ ConvertPatchRows

CopySpec == CopyInit /\ [][CopyNext]_vars

\* C20: for the rows g = rowfilter(catalog), row i of the table copy_columns
\* returns has every copied column equal to the catalog value at row g[i]
\* and COEFF_k equal to COEFF[g[i], k] of the catalog for k in 0..9; the
\* table has exactly len(g) rows, in the order of g, and its metadata
\* EXTNAME is 'COEFF_PATCH'.
C20_CopyAligned ==
    copc = "copied" =>
        LET g == Apply(rowfilter, catalog.rows)
        IN  /\ Len(new_table.rows) = Len(g)
            /\ new_table.meta.EXTNAME = "COEFF_PATCH"
            /\ \A i \in 1..Len(g) :
                /\ \A n \in 1..Len(cols[catalog_type]) :
                    LET c == cols[catalog_type][n]
                    IN  c \in catalog.colnames =>
                            new_table.rows[i][c] = catalog.rows[g[i]][c]
                /\ \A j \in 0..9 :
                    new_table.rows[i][CoeffNames[j + 1]] = catalog.rows[g[i]]["COEFF"][j]

\* C20 witness: a catalog of a sky target followed by a target, filtered by
\* no_sky, has been copied: the one row of the patch table is the target,
\* with the target's coefficients.
C20_Witness ==
    /\ copc = "copied" /\ rowfilter = "no_sky" /\ catalog_type = "pix"
    /\ Len(catalog.rows) = 2
    /\ catalog.rows[1]["TARGETID"] = {0, 59} /\ catalog.rows[2]["TARGETID"] = {0}
    /\ Len(new_table.rows) = 1
    /\ new_table.rows[1]["TARGETID"] = {0}
    /\ new_table.rows[1]["SURVEY"] = "main"
    /\ new_table.rows[1]["COEFF_3"] = <<"a", 3>>

-----------------------------------------------------------------------------
(* The row limit of load_file, under Spec.                                 *)

\* the rows of all the files
RECURSIVE RowsOfFiles(_)
RowsOfFiles(i) == IF i > Len(filepaths) THEN 0 ELSE Len(filepaths[i]) + RowsOfFiles(i + 1)

\* C21: with maxrows = M > 0 the rows load_file inserts, and the total it
\* counts and returns, are at most M for any list of input files; with
\* maxrows = 0 every row that passes the row filter is loaded (every row of
\* every file, for the photometry stage, which has no row filter).
C21_MaxrowsBound ==
    /\ maxrows > 0 => (loaded_rows <= maxrows /\ Len(executed) <= maxrows)
    /\ (maxrows = 0 /\ pc = "done" /\ stage = "photometry" /\ unrecognized = {}
           /\ start.photometry = {})
          => Len(executed) = RowsOfFiles(1)

-----------------------------------------------------------------------------
(* The single tile loader, specprodDB.tile.main.  The tables hold the key  *)
(* columns of their rows; a TARGETID is the set of its 1 bits.  The        *)
(* --primary option, which rewrites the primary flags of the Ztile rows,   *)
(* is left off.                                                            *)

TileCount == 2
TileRuns == 2

\* the parts of the program the later specifications leave out
LoadIdle ==
    /\ stage = "" /\ filepaths = <<>> /\ chunksize = 1 /\ maxrows = 0
    /\ db = [photometry |-> {}] /\ pc = "off" /\ l = 0 /\ f = 0 /\ k = 0
    /\ data = <<>> /\ good_rows = <<>> /\ data_rows = <<>> /\ loaded_rows = 0
    /\ run = 0 /\ start = [photometry |-> {}] /\ ended = <<>>
    /\ unrecognized = {} /\ executed = <<>>

\* the row of tile T in the TILES HDU of the tiles file
tiles_table(T) == [tileid |-> T, survey |-> "main", program |-> "dark"]

\* the TARGETS HDU of the fiberassign file of tile T: two targets, the second
\* shared with the next tile, and one sky location
fiberassign_file(T) ==
    << [TARGETID |-> Bits(T)], [TARGETID |-> Bits(T + 1)],
       [TARGETID |-> Bits(T) \cup {59}] >>

\* tile.potential_targets: the TARGETS rows that no_sky keeps
potential_targets(T) ==
    LET t == fiberassign_file(T)
        keep == no_sky(t)
    IN  [i \in 1..Len(keep) |-> t[keep[i]]]

\* the targetid column of the Photometry rows of a database
photometry_targetid(d) == {p.targetid : p \in d.photometry}

\* tile.potential_photometry: the targets with no Photometry row yet, with
\* the tile's TILEID, SURVEY and PROGRAM
potential_photometry(d, tile, tgts) ==
    LET not_already_loaded ==
            GoodIndex([i \in 1..Len(tgts) |->
                          tgts[i].TARGETID \notin photometry_targetid(d)], 1)
    IN  [i \in 1..Len(not_already_loaded) |->
            [TARGETID |-> tgts[not_already_loaded[i]].TARGETID,
             TILEID |-> tile.tileid, SURVEY |-> tile.survey,
             PROGRAM |-> tile.program]]

\* tile.targetphot: gather_targetphot returns one row per catalog row
targetphot(cat) == cat

\* tile.tractorphot: gather_tractorphot returns one row per catalog row, with
\* an empty BRICKNAME where it found no Tractor photometry
tractorphot(cat, bricks) ==
    [i \in 1..Len(cat) |->
        [TARGETID |-> cat[i].TARGETID,
         BRICKNAME |-> IF cat[i].TARGETID \in bricks THEN "brick" ELSE ""]]

\* Photometry.convert over the rows of row_index
Photometry_convert(tab, row_index, origin) ==
    {[targetid |-> tab[row_index[i]].TARGETID, origin |-> origin] :
        i \in 1..Len(row_index)}

\* tile.load_photometry: the rows with a BRICKNAME
load_photometry(phot) ==
    Photometry_convert(phot,
        GoodIndex([i \in 1..Len(phot) |-> phot[i].BRICKNAME # ""], 1), "tractor")

\* tile.load_targetphot: load_rows starts all False and is only set inside
\* "if len(loaded_photometry) > 0"; rows already in the database are dropped
load_targetphot_rows(d, tphot, loaded_phot) ==
    LET loaded_targetid == {p.targetid : p \in loaded_phot}
        first(t) == CHOOSE i \in 1..Len(tphot) :
                        /\ tphot[i].TARGETID = t
                        /\ \A j \in 1..(i - 1) : tphot[j].TARGETID # t
        load_targetids == {tphot[i].TARGETID : i \in 1..Len(tphot)} \ loaded_targetid
        load_rows == [i \in 1..Len(tphot) |->
                         /\ loaded_phot # {}
                         /\ \E t \in load_targetids : i = first(t)]
        not_already == [i \in 1..Len(tphot) |->
                           ~ \E j \in 1..Len(tphot) :
                                 /\ load_rows[j]
                                 /\ tphot[j].TARGETID \in photometry_targetid(d)
                                 /\ tphot[j].TARGETID = tphot[i].TARGETID]
    IN  GoodIndex([i \in 1..Len(tphot) |-> load_rows[i] /\ not_already[i]], 1)

load_targetphot(d, tphot, loaded_phot) ==
    Photometry_convert(tphot, load_targetphot_rows(d, tphot, loaded_phot), "targeting")

\* tile.load_target: Target.convert(target, tile.survey, tile.tileid)
load_target(tile, tgt) ==
    {[targetid |-> tgt[i].TARGETID, survey |-> tile.survey, tileid |-> tile.tileid] :
        i \in 1..Len(tgt)}

\* tile.load_fiberassign: the rows of the tile's file that no_sky keeps
load_fiberassign(tile) ==
    {[tileid |-> tile.tileid, targetid |-> r.TARGETID] :
        r \in {potential_targets(tile.tileid)[i] :
                  i \in 1..Len(potential_targets(tile.tileid))}}

\* tile.load_redshift: the rows of the redrock files that no_sky keeps
load_redshift(tile) ==
    {[targetid |-> r.targetid, survey |-> tile.survey, tileid |-> tile.tileid] :
        r \in load_fiberassign(tile)}

\* the empty schema that create_all leaves
EmptyTables ==
    [tile |-> {}, exposure |-> {}, frame |-> {}, photometry |-> {}, target |-> {},
     fiberassign |-> {}, potential |-> {}, ztile |-> {}]

\* load.setup_db: drop_all and create_all under overwrite
setup_db(d, overwrite) == IF overwrite THEN EmptyTables ELSE d

\* load.upsert and its execution: insert, and on a primary key conflict keep
\* one row for the key; the rows here are their key columns
upsert(rows, table) == table \cup rows

\* the constraints of the schema: a primary key that is already there, for
\* add_all, and a foreign key with no row to point at
PrimaryKeyTaken(rows, table) == rows \cap table # {}
ForeignKeyPhotometry(d, rows) == \E r \in rows : r.targetid \notin photometry_targetid(d)
ForeignKeyTarget(d, rows) == \E r \in rows : r \notin d.target

TileOptions ==
    [tile : 0..TileCount, overwrite : BOOLEAN, update : BOOLEAN,
     tile_row : {"ok", "null"}, exposures : {"ok", "null", "none"}]

NoLocals == [new_tile |-> <<>>, potential_targetphot |-> <<>>, loaded_photometry |-> {}]

\* what the tile loader leaves alone
nontile == <<oldvars, racevars, mainvars, patchvars>>

TileInit ==
    /\ KeyIdle /\ LoadIdle /\ FinIdle /\ ZpixIdle /\ ConvIdle /\ CopyIdle
    /\ RaceIdle /\ MainIdle /\ PatchIdle
    /\ tdb = EmptyTables /\ tpc = "idle" /\ topt \in TileOptions
    /\ tloc = NoLocals /\ truns = 0

TileEnded == tpc \in {"idle", "return 0", "return 1", "raised"}

\* main up to the end of setup_db
SetupDb ==
    /\ TileEnded /\ truns < TileRuns
    /\ truns' = truns + 1
    /\ topt' \in TileOptions
    /\ tdb' = setup_db(tdb, topt'.overwrite)
    /\ tloc' = NoLocals
    /\ tpc' = "tiles"
    /\ UNCHANGED nontile

\* main from the tiles file to the commit of the tile: no matching tile and
\* no valid exposure return 1 before anything is written
UpsertTile ==
    /\ tpc = "tiles"
    /\ IF topt.tile = 0 \/ topt.exposures = "none" \/ topt.tile_row = "null"
       THEN tpc' = "return 1" /\ UNCHANGED <<tdb, tloc>>
       ELSE /\ tdb' = [tdb EXCEPT !.tile = upsert({tiles_table(topt.tile)}, @)]
            /\ tloc' = [tloc EXCEPT !.new_tile = tiles_table(topt.tile)]
            /\ tpc' = "exposures"
    /\ UNCHANGED <<nontile, topt, truns>>

\* main: the exposures; on IntegrityError the tile is deleted again, unless a
\* row of an earlier load still points at it
UpsertExposures ==
    /\ tpc = "exposures"
    /\ IF topt.exposures = "ok"
       THEN /\ tdb' = [tdb EXCEPT !.exposure = upsert({[expid |-> topt.tile, tileid |-> topt.tile]}, @)]
            /\ tpc' = "frames"
       ELSE IF \E r \in tdb.exposure \cup tdb.target \cup tdb.fiberassign \cup tdb.ztile
                       \cup tdb.potential : r.tileid = tloc.new_tile.tileid
            THEN tpc' = "raised" /\ UNCHANGED tdb
            ELSE /\ tdb' = [tdb EXCEPT !.tile = @ \ {tloc.new_tile}]
                 /\ tpc' = "return 1"
    /\ UNCHANGED <<nontile, topt, tloc, truns>>

\* main: the frames of the exposures
UpsertFrames ==
    /\ tpc = "frames"
    /\ tdb' = [tdb EXCEPT !.frame = upsert({[expid |-> topt.tile]}, @)]
    /\ tpc' = IF topt.update THEN "redshift" ELSE "photometry"
    /\ UNCHANGED <<nontile, topt, tloc, truns>>

\* main: potential_targets, potential_photometry, targetphot, tractorphot
\* and load_photometry
LoadPhotometry ==
    /\ tpc = "photometry"
    /\ LET potential_cat ==
               potential_photometry(tdb, tloc.new_tile, potential_targets(tloc.new_tile.tileid))
       IN  \E bricks \in SUBSET {potential_cat[i].TARGETID : i \in 1..Len(potential_cat)} :
               LET loaded == load_photometry(tractorphot(potential_cat, bricks))
               IN  /\ tdb' = [tdb EXCEPT !.photometry = @ \cup loaded]
                   /\ tloc' = [tloc EXCEPT !.potential_targetphot = targetphot(potential_cat),
                                           !.loaded_photometry = loaded]
    /\ tpc' = "targetphot"
    /\ UNCHANGED <<nontile, topt, truns>>

\* main: load_targetphot
LoadTargetphot ==
    /\ tpc = "targetphot"
    /\ tdb' = [tdb EXCEPT !.photometry =
                  @ \cup load_targetphot(tdb, tloc.potential_targetphot, tloc.loaded_photometry)]
    /\ tpc' = "target"
    /\ UNCHANGED <<nontile, topt, tloc, truns>>

\* main: load_target; add_all raises IntegrityError at the commit
LoadTarget ==
    /\ tpc = "target"
    /\ LET rows == load_target(tloc.new_tile, tloc.potential_targetphot)
       IN  IF PrimaryKeyTaken(rows, tdb.target) \/ ForeignKeyPhotometry(tdb, rows)
           THEN tpc' = "raised" /\ UNCHANGED tdb
           ELSE tdb' = [tdb EXCEPT !.target = @ \cup rows] /\ tpc' = "fiberassign"
    /\ UNCHANGED <<nontile, topt, tloc, truns>>

\* main: load_fiberassign, the assignments and then the potential assignments
LoadFiberassign ==
    /\ tpc = "fiberassign"
    /\ LET rows == load_fiberassign(tloc.new_tile)
       IN  IF PrimaryKeyTaken(rows, tdb.fiberassign) \/ ForeignKeyPhotometry(tdb, rows)
           THEN tpc' = "raised" /\ UNCHANGED tdb
           ELSE /\ tdb' = [tdb EXCEPT !.fiberassign = @ \cup rows, !.potential = @ \cup rows]
                /\ tpc' = "redshift"
    /\ UNCHANGED <<nontile, topt, tloc, truns>>

\* main: load_redshift, an upsert, and return 0
LoadRedshift ==
    /\ tpc = "redshift"
    /\ LET rows == load_redshift(tloc.new_tile)
       IN  IF ForeignKeyTarget(tdb, rows) \/ ForeignKeyPhotometry(tdb, rows)
           THEN tpc' = "raised" /\ UNCHANGED tdb
           ELSE tdb' = [tdb EXCEPT !.ztile = upsert(rows, @)] /\ tpc' = "return 0"
    /\ UNCHANGED <<nontile, topt, tloc, truns>>

TileNext ==
    \/ SetupDb \/ UpsertTile \/ UpsertExposures \/ UpsertFrames \/ LoadPhotometry
    \/ LoadTargetphot \/ LoadTarget \/ LoadFiberassign \/ LoadRedshift

TileSpec == TileInit /\ [][TileNext]_vars

\* C22: in a run without --overwrite no step removes a row from any table:
\* every table after the step holds every row it held before; rows go only
\* in the drop_all of setup_db under overwrite.
C22_NoDeletion ==
    [][(tpc # "tiles" \/ ~topt.overwrite)' =>
          \A tab \in DOMAIN tdb : tdb[tab] \subseteq tdb'[tab]]_vars

\* C24: once load_photometry and load_targetphot have run for a tile, every
\* TARGETID of the targetphot table has a Photometry row, from the Tractor
\* photometry or else from the targeting data, also when load_photometry
\* loaded no row.
C24_PhotometryCoverage ==
    tpc = "target" =>
        \A i \in 1..Len(tloc.potential_targetphot) :
            tloc.potential_targetphot[i].TARGETID \in photometry_targetid(tdb)

\* C25: once load_target has returned for tile T in a run without --update,
\* the Target table holds (targetid, tile.survey, T) for every potential
\* target of T that is not a sky location, and every Ztile row has its
\* Target row.
C25_TargetCoverage ==
    /\ tpc \in {"fiberassign", "redshift", "return 0"} /\ ~topt.update =>
           \A i \in 1..Len(potential_targets(topt.tile)) :
               [targetid |-> potential_targets(topt.tile)[i].TARGETID,
                survey |-> tloc.new_tile.survey, tileid |-> topt.tile] \in tdb.target
    /\ tpc # "off" => \A z \in tdb.ztile : z \in tdb.target

-----------------------------------------------------------------------------
(* Two invocations of the targetphot stage against one schema.  Each is a  *)
(* process of its own that runs load_file on one file; engine.execute      *)
(* commits each chunk, so a chunk is in the shared table as soon as it is  *)
(* inserted.  The program takes no lock: whether the processes are run one *)
(* at a time is up to the operator, and is fixed at the start here.        *)

ProcCount == 2
Procs == 1..ProcCount

\* the files a process may be given
RaceFiles ==
    {q \in SeqsUpTo(2) :
        Len(q) > 0 /\ \A i \in 1..Len(q) : q[i].RELEASE = 0 /\ q[i].TARGETID < 3}

NotStarted == [pc |-> "idle", file |-> <<>>, csize |-> 1, mask |-> <<>>,
               rows |-> <<>>, chunk |-> 0]

RaceInit ==
    /\ KeyIdle /\ LoadIdle /\ FinIdle /\ ZpixIdle /\ ConvIdle /\ CopyIdle
    /\ TileIdle /\ MainIdle /\ PatchIdle
    /\ rtable \in {t.photometry : t \in InitialTables}
    /\ proc = [p \in Procs |-> NotStarted]
    /\ exclusive \in BOOLEAN

Running(p) == proc[p].pc \in {"file", "chunk"}

\* what the two loaders leave alone
nonrace == <<oldvars, tilevars, mainvars, patchvars>>

\* main is started for the targetphot stage
RaceStart(p) ==
    /\ proc[p].pc = "idle"
    /\ exclusive => \A q \in Procs : ~Running(q)
    /\ \E file \in RaceFiles, csize \in Chunksizes :
           proc' = [proc EXCEPT ![p] = [NotStarted EXCEPT !.pc = "file",
                                           !.file = file, !.csize = csize]]
    /\ UNCHANGED <<nonrace, rtable, exclusive>>

\* load_file: the file is read, the row filter _deduplicate_targetid queries
\* the table and the rows are converted
RaceReadFile(p) ==
    /\ proc[p].pc = "file"
    /\ LET file == proc[p].file
           mask == _deduplicate_targetid(file, rtable)
           rows == DataRows(file, Len(file), mask)
       IN  proc' = [proc EXCEPT ![p].mask = mask, ![p].rows = rows,
                        ![p].pc = IF Len(rows) = 0 THEN "done" ELSE "chunk"]
    /\ UNCHANGED <<nonrace, rtable, exclusive>>

\* load_file: one chunk is inserted, or the primary key raises
RaceInsertChunk(p) ==
    /\ proc[p].pc = "chunk"
    /\ LET data_chunk == DataChunk(proc[p].rows, proc[p].chunk, proc[p].csize)
       IN  IF IntegrityError(data_chunk, rtable)
           THEN proc' = [proc EXCEPT ![p].pc = "raised"] /\ UNCHANGED rtable
           ELSE /\ rtable' = rtable \cup {data_chunk[i] : i \in 1..Len(data_chunk)}
                /\ proc' = [proc EXCEPT ![p].chunk = @ + 1,
                                ![p].pc = IF proc[p].chunk + 1 < n_chunks(Len(proc[p].rows), proc[p].csize)
                                          THEN "chunk" ELSE "done"]
    /\ UNCHANGED <<nonrace, exclusive>>

RaceNext == \E p \in Procs : RaceStart(p) \/ RaceReadFile(p) \/ RaceInsertChunk(p)

RaceSpec == RaceInit /\ [][RaceNext]_vars

\* C23: when the loaders of the targetphot stage are run one at a time, no
\* insert hits the primary key of Photometry; it takes two of them at once,
\* both past _deduplicate_targetid before either has inserted.
C23_SingleWriter == exclusive => \A p \in Procs : proc[p].pc # "raised"

\* the state in question: two processes at once, both have marked a row of
\* the same TARGETID, which was not loaded, as safe to load; one has
\* inserted it and the insert of the other has raised
C23_Witness ==
    /\ ~exclusive
    /\ \E p, q \in Procs :
          /\ p # q /\ proc[p].pc = "done" /\ proc[q].pc = "raised"
          /\ \E i \in 1..Len(proc[p].file), h \in 1..Len(proc[q].file) :
                /\ proc[p].mask[i] /\ proc[q].mask[h]
                /\ proc[p].file[i].TARGETID = proc[q].file[h].TARGETID
                /\ \E r \in rtable : r.targetid = proc[p].file[i].TARGETID

-----------------------------------------------------------------------------
(* The start of load.main: the environment, the configuration file,        *)
(* setup_db, the redshift catalog type and the loading stage, in the order *)
(* of the code.  What a stage loads is the subject of Spec; here a stage   *)
(* that does load leaves one row named after it.  The fiberassign stage,   *)
(* with its search for files, is left out.                                 *)

MainRuns == 2

MainOptions ==
    [SPECPROD : BOOLEAN, config : {"ok", "unreadable", "no section"},
     redshift_type : {"base", "patch", "zcat", "daily"},
     load : {"exposures", "photometry", "nonesuch"}, overwrite : BOOLEAN]

\* the stages of the loaders dictionary that are modelled here
MainStages == {"exposures", "photometry"}

MainInit ==
    /\ KeyIdle /\ LoadIdle /\ FinIdle /\ ZpixIdle /\ ConvIdle /\ CopyIdle
    /\ TileIdle /\ RaceIdle /\ PatchIdle
    /\ mdb = [rows |-> {}, created |-> 1]
    /\ mpc = "idle" /\ mopt \in MainOptions /\ mstart = mdb /\ mruns = 0

MainEnded == mpc \in {"idle", "return 0", "return 1"}

\* what load.main leaves alone
nonmain == <<oldvars, tilevars, racevars, patchvars>>

\* get_options
MainStart ==
    /\ MainEnded /\ mruns < MainRuns
    /\ mruns' = mruns + 1
    /\ mopt' \in MainOptions
    /\ mstart' = mdb
    /\ mpc' = "environ"
    /\ UNCHANGED <<nonmain, mdb>>

\* os.environ['SPECPROD']
CacheSpecprod ==
    /\ mpc = "environ"
    /\ mpc' = IF mopt.SPECPROD THEN "config" ELSE "return 1"
    /\ UNCHANGED <<nonmain, mdb, mopt, mstart, mruns>>

\* config.read and the section of the specprod
ReadConfiguration ==
    /\ mpc = "config"
    /\ mpc' = IF mopt.config = "ok" THEN "setup_db" ELSE "return 1"
    /\ UNCHANGED <<nonmain, mdb, mopt, mstart, mruns>>

\* setup_db: drop_all and create_all under overwrite
InitializeDB ==
    /\ mpc = "setup_db"
    /\ mdb' = IF mopt.overwrite THEN [rows |-> {}, created |-> mdb.created + 1] ELSE mdb
    /\ mpc' = "redshift"
    /\ UNCHANGED <<nonmain, mopt, mstart, mruns>>

\* the redshift catalog type
LoadConfiguration ==
    /\ mpc = "redshift"
    /\ mpc' = IF mopt.redshift_type \in {"base", "patch", "zcat"} THEN "stage" ELSE "return 1"
    /\ UNCHANGED <<nonmain, mdb, mopt, mstart, mruns>>

\* loaders[options.load]
FindLoader ==
    /\ mpc = "stage"
    /\ mpc' = IF mopt.load \in MainStages THEN "load" ELSE "return 1"
    /\ UNCHANGED <<nonmain, mdb, mopt, mstart, mruns>>

\* the version metadata and the loop over the loaders of the stage
LoadTables ==
    /\ mpc = "load"
    /\ mdb' = [mdb EXCEPT !.rows =
                  @ \cup (IF mopt.load = "exposures" /\ mopt.overwrite
                          THEN {"version"} ELSE {}) \cup {mopt.load}]
    /\ mpc' = "return 0"
    /\ UNCHANGED <<nonmain, mopt, mstart, mruns>>

MainNext ==
    \/ MainStart \/ CacheSpecprod \/ ReadConfiguration \/ InitializeDB
    \/ LoadConfiguration \/ FindLoader \/ LoadTables

MainSpec == MainInit /\ [][MainNext]_vars

\* C29: when load.main returns 1 for SPECPROD unset, an unreadable
\* configuration, an unsupported redshift catalog type or an unknown loading
\* stage, the schema is as it was when main was started: no table dropped,
\* created or modified, also with --overwrite.
C29_FailedUntouched == mpc = "return 1" => mdb = mstart

-----------------------------------------------------------------------------
(* The keys of the patch records, under CopySpec.                          *)

\* C26: every record r that ZpixPatch.convert returns, with survey and
\* program taken from the data and any row_index, has
\* r.id = zpixid(r.targetid, r.survey, r.program).
C26_PatchKeys ==
    copc = "converted" =>
        \A i \in 1..Len(patch_rows) :
            patch_rows[i].id = zpixid(patch_rows[i].targetid, patch_rows[i].survey,
                                      patch_rows[i].program)

-----------------------------------------------------------------------------
(* The frame of zpix_target, under ZpixSpec.                               *)

\* the columns of a Zpix row that are not targeting bitmasks
ZpixKey(z) == <<z.targetid, z.survey, z.program>>

\* C27: a step of zpix_target leaves the Target, Fiberassign and Photometry
\* tables as they are, keeps every Zpix row's targetid, survey and program,
\* and changes the targeting bitmask columns only of Zpix rows whose target
\* it selected for fixing in the row's survey and program.
C27_ReconciliationFrame ==
    [][/\ Target' = Target /\ Fiberassign' = Fiberassign /\ db' = db
       /\ {ZpixKey(z) : z \in Zpix'} = {ZpixKey(z) : z \in Zpix}
       /\ Cardinality(Zpix') = Cardinality(Zpix)
       /\ \A z \in Zpix \ Zpix' :
              /\ specprod \in DOMAIN specprod_survey_program
              /\ z.targetid \in targetids_to_fix(specprod, z.survey, z.program)]_vars

\* a call has returned that rewrote the Zpix row of one program and left the
\* Zpix row of the other program as it was
C27_Witness ==
    /\ Returned
    /\ \E z \in Zpix : z \notin calls[Len(calls)].start
    /\ \E z \in Zpix : z \in calls[Len(calls)].start

-----------------------------------------------------------------------------
(* zpix_target interrupted.  The process can be terminated between two     *)
(* commits of the update loop; AbortSpec adds that step to ZpixSpec.       *)

\* the process is terminated inside the update loop: what is committed stays
ZpixTargetTerminate ==
    /\ zpc = "update"
    /\ calls' = Append(calls, Called("terminated"))
    /\ zpc' = "idle" /\ bit_or_query' = <<>>
    /\ UNCHANGED <<extvars, issued, loadvars, finvars, convvars, copyvars, specprod, Target, Fiberassign,
                   Zpix, zstart>>

AbortNext == ZpixNext \/ ZpixTargetTerminate

\* the databases of ZpixInit whose targets have no secondary targeting bits
AbortInit == ZpixInit /\ \A r \in Target : r.masks[ScndColumn(r.survey)] = {}

AbortSpec == AbortInit /\ [][AbortNext]_vars

\* the Zpix table that one uninterrupted run of zpix_target, with the rows
\* fixes of its bit_or queries, leaves of zpix
Uninterrupted(zpix, fixes) ==
    {IF \E x \in fixes : x.key = ZpixKey(z)
     THEN UpdateZpix(z, (CHOOSE x \in fixes : x.key = ZpixKey(z)).row)
     ELSE z : z \in zpix}

\* the rows of BitOrQuery, each with the key of the Zpix row it is for
Fixes ==
    IF specprod \in DOMAIN specprod_survey_program
    THEN LET qs == BitOrQuery(specprod)
         IN  UNION {{[key |-> <<row.targetid, qs[i].survey, qs[i].program>>, row |-> row] :
                        row \in qs[i].rows} : i \in 1..Len(qs)}
    ELSE {}

\* C28: a call of zpix_target that ends early leaves every Zpix row either
\* as it was or with its OR-ed values, and a later call that runs to its end
\* leaves the Zpix table that one uninterrupted run would have left.
C28_InterruptedConverges ==
    (\E j \in 1..Len(calls) : calls[j].how # "return") =>
        LET fixes == Fixes
        IN  \A j \in 1..Len(calls) :
                calls[j].how # "return" =>
                    /\ calls[j].zpix \subseteq
                           calls[j].start \cup Uninterrupted(calls[j].start, fixes)
                    /\ \A i \in (j + 1)..Len(calls) :
                           calls[i].how = "return" =>
                               calls[i].zpix = Uninterrupted(calls[j].start, fixes)

\* a call was terminated after it had rewritten a Zpix row, and the next
\* call ran to its end
C28_Witness ==
    /\ Len(calls) = 2
    /\ calls[1].how = "terminated" /\ calls[1].zpix # calls[1].start
    /\ calls[2].how = "return"

-----------------------------------------------------------------------------
(* specprodDB.patch.patch_exposures.  An exposures table is a sequence of  *)
(* rows with distinct EXPID; its columns are plain, not masked, and every  *)
(* NIGHT is at or after first_night.  A call either returns a table or     *)
(* stops at an assert statement.                                           *)

PatchRows == 2

\* the rows a source table may hold for an exposure: complete, or with the
\* MJD missing there too
SrcRowValues(e) ==
    {[EXPID |-> e, TILERA |-> 1, TILEDEC |-> 1, MJD |-> mjd, SURVEY |-> "main",
      EFFTIME_SPEC |-> 1] : mjd \in {0, 59000}}

\* the rows a table to be patched may hold for an exposure
DstRowValues(e) ==
    {[EXPID |-> e, TILERA |-> c, TILEDEC |-> c, MJD |-> mjd, SURVEY |-> s,
      EFFTIME_SPEC |-> 1] : c \in {0, 2}, mjd \in {0, 58000}, s \in {"sv1", "unknown"}}

\* the tables with at most one row for each of the exposures 1..n, by EXPID
RECURSIVE ExposureTables(_, _, _)
ExposureTables(e, n, kind) ==
    IF e > n THEN {<<>>}
    ELSE LET rest == ExposureTables(e + 1, n, kind)
             values == IF kind = "src" THEN SrcRowValues(e) ELSE DstRowValues(e)
         IN  rest \cup {<<r>> \o t : r \in values, t \in rest}

\* patch.match_rows: the pairs of row numbers with equal JOIN_ID, in the
\* order of the join, which sorts by JOIN_ID
RECURSIVE match_rows(_, _, _)
match_rows(left, right, i) ==
    IF i > Len(left) THEN <<>>
    ELSE (IF \E j \in 1..Len(right) : right[j].EXPID = left[i].EXPID
          THEN <<[left |-> i,
                  right |-> CHOOSE j \in 1..Len(right) : right[j].EXPID = left[i].EXPID]>>
          ELSE <<>>) \o match_rows(left, right, i + 1)

\* the value in the raw data header
mjd_obs == 59001

\* the rows of dst that the loop over TILERA, TILEDEC, MJD, SURVEY patches
\* in a column
mask_matched(dst, j, col) ==
    IF col \in {"TILERA", "TILEDEC"} THEN dst[j].TILERA = 0 /\ dst[j].TILEDEC = 0
    ELSE IF col = "MJD" THEN dst[j].MJD < 50000
    ELSE dst[j].SURVEY \notin {"cmx", "sv1", "sv2", "sv3", "main", "special"}

\* dst after the loop: a matched row that the mask of a column selects gets
\* the value of the column in its source row
patches_applied(src, dst) ==
    LET m == match_rows(src, dst, 1)
        src_of(j) == (CHOOSE x \in {m[i] : i \in 1..Len(m)} : x.right = j).left
        matched(j) == \E i \in 1..Len(m) : m[i].right = j
        value(j, col) == IF matched(j) /\ mask_matched(dst, j, col)
                         THEN src[src_of(j)][col] ELSE dst[j][col]
    IN  [j \in 1..Len(dst) |->
            [EXPID |-> dst[j].EXPID, TILERA |-> value(j, "TILERA"),
             TILEDEC |-> value(j, "TILEDEC"), MJD |-> value(j, "MJD"),
             SURVEY |-> value(j, "SURVEY"), EFFTIME_SPEC |-> dst[j].EFFTIME_SPEC]]

\* "assert not (dst_exposures_patched[c] == dst_exposures[c]).all()" for the
\* four columns: .all() of no rows is True
qa_checks(patched, dst) ==
    \A col \in {"TILERA", "TILEDEC", "MJD", "SURVEY"} :
        \E j \in 1..Len(dst) : patched[j][col] # dst[j][col]

\* the MJD that is still missing is read from the raw data, where there is a
\* file
missing_mjd(patched, raw) ==
    [j \in 1..Len(patched) |->
        IF patched[j].MJD < 50000 /\ patched[j].EFFTIME_SPEC > 0 /\ raw
        THEN [patched[j] EXCEPT !.MJD = mjd_obs] ELSE patched[j]]

\* patch.patch_exposures
patch_exposures(src, dst, raw) ==
    LET patched == patches_applied(src, dst)
    IN  IF qa_checks(patched, dst)
        THEN [raised |-> "", table |-> missing_mjd(patched, raw)]
        ELSE [raised |-> "AssertionError", table |-> <<>>]

PatchInit ==
    /\ KeyIdle /\ LoadIdle /\ FinIdle /\ ZpixIdle /\ ConvIdle /\ CopyIdle
    /\ TileIdle /\ RaceIdle /\ MainIdle
    /\ psrc \in ExposureTables(1, PatchRows, "src") \ {<<>>}
    /\ pdst \in ExposureTables(1, PatchRows, "dst")
    /\ praw \in BOOLEAN
    /\ ppc = "read" /\ pfirst = <<>> /\ pout = <<>>

\* what the patching leaves alone
nonpatch == <<oldvars, tilevars, racevars, mainvars>>

\* patch_exposures(src, dst)
PatchExposures ==
    /\ ppc = "read"
    /\ LET out == patch_exposures(psrc, pdst, praw)
       IN  /\ pout' = out /\ pfirst' = out
           /\ ppc' = IF out.raised = "" THEN "patched" ELSE "raised"
    /\ UNCHANGED <<nonpatch, psrc, pdst, praw>>

\* patch_exposures(src, patch_exposures(src, dst))
PatchAgain ==
    /\ ppc = "patched"
    /\ pout' = patch_exposures(psrc, pfirst.table, praw)
    /\ ppc' = "repatched"
    /\ UNCHANGED <<nonpatch, psrc, pdst, praw, pfirst>>

PatchNext == PatchExposures \/ PatchAgain

PatchSpec == PatchInit /\ [][PatchNext]_vars

\* C30: patch_exposures(src, patch_exposures(src, dst)) completes and
\* returns the table that patch_exposures(src, dst) returned.
C30_PatchIdempotent ==
    ppc = "repatched" => pout.raised = "" /\ pout.table = pfirst.table

====
